---- MODULE Spec2Model ----
(***************************************************************************)
(* Verification model of the pharmAI multi-agent backend:                  *)
(*   - the six specialized agent executors (ai_agent/agents/all_agents.py) *)
(*   - the Master Dispatcher generator MasterAgentExecturor.invoke         *)
(*   - the SSE streaming service stream_master_agent_response              *)
(*   - the report renderer entry point generate_report                     *)
(* Python strings are TLA+ strings, JSON objects are sets of <<key,value>> *)
(* pairs, lists are sequences.                                             *)
(***************************************************************************)
EXTENDS Integers, Sequences, FiniteSets, TLC

(***************************************************************************)
(* Bounds of the exploration.                                              *)
(***************************************************************************)
\* capability calls the reasoning engine may request during one agent invoke
MaxToolCalls == 4
\* capability calls the planning pass may request
MaxPlanCalls == 2
\* fragments one streaming pass may produce
MaxChunks == 2
\* ticks of the wall clock the report generations are followed for
MaxClock == 3
\* ticks of the wall clock in one second
TicksPerSecond == 2
\* charts one PDF generation may draw
MaxCharts == 2

(***************************************************************************)
(* State.                                                                  *)
(***************************************************************************)
VARIABLES
  mode,              \* "idle" | "agent" | "service": what the process is running
  \* -- one specialized agent's invoke --
  self,              \* the executor whose invoke is running
  a_pc,              \* position in invoke: "while" | "for" | "returned" | "raised"
  count,             \* local count
  agent_scratchpad,  \* local agent_scratchpad
  raw_data_json,     \* local raw_data_json
  tool_calls,        \* requests of response_ai_message not yet processed
  a_result,          \* the value invoke returned
  passes,            \* history: reasoning passes performed by this invoke
  observed,          \* history: capability results processed by this invoke
  issued,            \* history: call identifiers issued by the engine so far
  \* -- the dispatcher generator MasterAgentExecturor.invoke --
  m_pc,              \* "created" | "phase2" | "chat" | "synth" | "report" |
                     \* "confirm" | "finished" | "raised" | "closed"
  user_prompt,       \* the query
  report_requested,  \* local report_requested
  report_format,     \* local report_format
  m_scratchpad,      \* the dispatcher's local agent_scratchpad
  m_tool_calls,      \* planned requests not yet executed
  final_summary_chunks, \* local final_summary_chunks
  \* -- the service generator stream_master_agent_response --
  s_pc,              \* "created" | "iterating" | "at_chunk" | "at_error" |
                     \* "at_done" | "ended" | "closed"
  events,            \* SSE events delivered to the consumer
  \* -- history of the run --
  trace,             \* operations of the dispatcher, in order
  planned,           \* requests of the planning pass (-1 before it)
  produced,          \* fragments the streaming engine produced
  engine_failed,     \* "no" | "plan" | "stream"
  renderer_calls,    \* arguments of each generate_report call
  render_failed,     \* the renderer returned status error or raised
  disconnect,        \* where the consumer closed the stream
  \* -- report generations sharing the reports directory --
  now,               \* the wall clock, in ticks
  renders,           \* per generate_report call: format, position, paths
  reports_dir,       \* the files of the reports directory: <<path, writer>>
  \* -- interleaved invocations of the singletons --
  frames,            \* the locals of each running invoke
  invocations,       \* per invocation: executor, position, responses, result
  \* -- the Data Gateway --
  dataset,           \* dataset.json as it is on disk
  gw_request,        \* the last lookup request: endpoint and key parameter
  gw_response,       \* the JsonResponse it was answered with
  \* -- the non-streaming chat endpoint --
  chat_request,      \* the last POST: its body and what the dispatcher did
  chat_response,     \* the HTTP response chat_agent returned
  \* -- the wrapper capabilities called on their own --
  w_call,            \* the last wrapper call: name, registry entry, engine script
  w_return,          \* what the wrapper gave its caller
  \* -- PDF generations sharing the temporary chart directory --
  chart_clock,       \* the wall clock, in microseconds
  temp_dir,          \* the files of reports/temp: <<file, writer>>
  pdfs               \* per generate_pdf_report call: position, charts, images

(***************************************************************************)
(* Python helpers.                                                         *)
(***************************************************************************)
None == "None"

\* str.lower() of a word
Lower(w) ==
  CASE w \in {"Report", "REPORT"} -> "report"
    [] w = "PDF" -> "pdf"
    [] w \in {"Excel", "EXCEL"} -> "excel"
    [] w = "Metformin" -> "metformin"
    [] w = "Respiratory" -> "respiratory"
    [] w = "STRAT-2024-001" -> "strat-2024-001"
    [] OTHER -> w

\* dict.get(key, default)
DictGet(d, k, default) ==
  IF \E p \in d : p[1] = k THEN (CHOOSE p \in d : p[1] = k)[2] ELSE default

\* x in list
InList(x, list) == \E i \in 1..Len(list) : list[i] = x

(***************************************************************************)
(* Data Gateway (API/views.py): dataset.json and the six lookups.          *)
(* A JSON object is a set of <<key, value>> pairs with text values; nested *)
(* objects are flattened to dotted keys and an empty list is the text [].  *)
(***************************************************************************)
\* the top-level sections of dataset.json the lookups read
Sections ==
  {"market_intelligence_iqvia", "clinical_trials", "exim_trade_data",
   "patent_landscape", "internal_knowledge_base", "patent_analysis"}

\* the keys dataset.json holds in a section, in file order (for the knowledge
\* base: the document ids of its documents)
SectionKeys(section) ==
  CASE section = "market_intelligence_iqvia" -> <<"respiratory", "oncology">>
    [] section = "internal_knowledge_base"
         -> <<"STRAT-2024-001", "FIELD-2024-Q3">>
    [] OTHER -> <<"metformin", "semaglutide">>

\* the field of an entry that holds its name
NameField(section) ==
  CASE section = "market_intelligence_iqvia" -> "therapy_area_name"
    [] section = "internal_knowledge_base" -> "document_id"
    [] section = "patent_analysis" -> "molecule"
    [] OTHER -> "molecule_name"

\* the entry dataset.json holds under a key
Entry(section, key) == {<<NameField(section), key>>}

\* dataset.json with every section and well-formed entries
DatasetOk == [file |-> "json", sections |-> Sections, entries |-> "object"]

\* the states of dataset.json: not there, not JSON, or JSON with some of the
\* sections, whose entries are objects or null
Datasets ==
  {DatasetOk,
   [file |-> "missing", sections |-> {}, entries |-> "object"],
   [file |-> "not_json", sections |-> {}, entries |-> "object"],
   [file |-> "json", sections |-> {}, entries |-> "object"],
   [file |-> "json", sections |-> Sections \ {"exim_trade_data"},
    entries |-> "object"],
   [file |-> "json", sections |-> Sections, entries |-> "null"]}

\* load_dataset: the parsed file, or None
load_dataset(file) ==
  IF file.file = "json"
    THEN [none |-> FALSE, sections |-> file.sections, entries |-> file.entries]
    ELSE [none |-> TRUE, sections |-> {}, entries |-> "object"]

\* request.GET.get(name): absent, or a text
NoParam == [present |-> FALSE, value |-> ""]

Param(v) == [present |-> TRUE, value |-> v]

\* JsonResponse(body, status=...): the status and the fields of the body
JsonResponse(status, error, usage_example, list_name, available, data) ==
  [status |-> status, error |-> error, usage_example |-> usage_example,
   list_name |-> list_name, available |-> available, data |-> data]

\* the 400 answer to a request without its key parameter
MissingParameter(name, usage_example) ==
  JsonResponse(400, "Missing '" \o name \o "' query parameter.", usage_example,
               "", << >>, {})

\* the 500 answers
ServerError(error) == JsonResponse(500, error, "", "", << >>, {})

DatasetNotLoaded ==
  ServerError("Data file not found or could not be loaded on server.")

\* except KeyError as e: str(e) is the quoted key
StructureMismatch(key) ==
  ServerError("Data structure mismatch. Missing expected key: '" \o key \o "'")

\* except Exception as e while the body is built from an entry that is null
ProcessingError(key) ==
  ServerError("An error occurred while processing data for '" \o key
                \o "': 'NoneType' object has no attribute 'get'")

\* mutant: the 404 body does not list the valid keys
NotFound_nolist(error, list_name, keys) ==
  JsonResponse(404, error, "", "", << >>, {})

\* the 404 answer to an unrecognized key
NotFound(error, list_name, keys) ==
  JsonResponse(404, error, "", list_name, keys, {})

\* the 200 answer
Ok(body) == JsonResponse(200, "", "", "", << >>, body)

\* {out: entry.get(in)} for each <<out, in>> of fields
Project(entry, fields) == {<<f[1], DictGet(entry, f[2], None)>> : f \in fields}

\* the body shared by the five lookups keyed by a lower-cased name:
\* parameter check, load, section, key, entry; texts are the literals in
\* which the five differ
KeyedLookup(param, file, texts, body) ==
  LET name == texts[1]
      usage_example == texts[2]
      section == texts[3]
      what == texts[4]
      where == texts[5]
      list_name == texts[6]
      query == param.value
      key == Lower(query)
      pharma_data == load_dataset(file)
  IN IF ~param.present \/ query = ""
       THEN MissingParameter(name, usage_example)
     ELSE IF pharma_data.none THEN DatasetNotLoaded
     ELSE IF section \notin pharma_data.sections
       THEN StructureMismatch(section)
     ELSE IF ~InList(key, SectionKeys(section))
       THEN NotFound(what \o " '" \o query \o "' not found" \o where \o ".",
                     list_name, SectionKeys(section))
     ELSE IF pharma_data.entries = "null" THEN ProcessingError(key)
     ELSE Ok(body)

iqvia_api(param, file) ==
  LET area_key == Lower(param.value)
      area_data == Entry("market_intelligence_iqvia", area_key)
  IN KeyedLookup(param, file, <<"area", "/api/iqvia?area=respiratory",
                 "market_intelligence_iqvia", "Therapy area", "",
                 "available_areas">>,
                 {<<"therapy_area",
                    DictGet(area_data, "therapy_area_name", area_key)>>,
                  <<"disease_markets_and_competitors", "[]">>}
                   \cup Project(area_data,
                                {<<"global_market_size_usd_millions",
                                   "global_market_size_usd_millions">>,
                                 <<"cagr_forecasted_percent", "cagr_forecasted">>,
                                 <<"forecast_period", "forecast_period">>}))

clinical_trials_api(param, file) ==
  LET molecule_data == Entry("clinical_trials", Lower(param.value))
  IN KeyedLookup(param, file, <<"molecule", "/api/trials?molecule=pirfenidone",
                 "clinical_trials", "Molecule", "", "available_molecules">>,
                 {<<"active_trials_count", "0">>,
                  <<"ongoing_trials_and_sponsors", "[]">>}
                   \cup Project(molecule_data,
                                {<<"molecule_name", "molecule_name">>,
                                 <<"drug_class", "drug_class">>,
                                 <<"total_trials_reported", "total_trials">>,
                                 <<"sponsor_breakdown", "sponsor_breakdown">>,
                                 <<"indication_distribution",
                                   "indication_distribution">>}))

exim_trade_api(param, file) ==
  LET molecule_data == Entry("exim_trade_data", Lower(param.value))
  IN KeyedLookup(param, file, <<"molecule", "/api/exim-trade?molecule=metformin",
                 "exim_trade_data", "Molecule", " in trade data",
                 "available_molecules">>,
                 Project(molecule_data,
                         {<<"molecule_name", "molecule_name">>,
                          <<"api_exports_2023", "api_exports_2023">>,
                          <<"formulation_imports_2023",
                            "formulation_imports_2023">>,
                          <<"market_trend", "market_trend">>,
                          <<"forecast_2024_2026", "forecast_2024_2026">>}))

patent_landscape_api(param, file) ==
  LET molecule_data == Entry("patent_landscape", Lower(param.value))
  IN KeyedLookup(param, file, <<"molecule", "/api/patents?molecule=semaglutide",
                 "patent_landscape", "Molecule", " in patent landscape data",
                 "available_molecules">>,
                 Project(molecule_data,
                         {<<"molecule_name", "molecule_name">>,
                          <<"molecule_details", "molecule_details">>,
                          <<"base_molecule_patent_status",
                            "base_molecule_patent_status">>,
                          <<"fto_status", "freedom_to_operate">>,
                          <<"active_patents_us", "active_patents_us">>,
                          <<"key_expired_patents", "key_expired_patents">>,
                          <<"innovation_trends.white_space_opportunities",
                            "white_space_opportunities">>,
                          <<"innovation_trends.recommended_strategy",
                            "recommended_strategy">>,
                          <<"patent_counts.expired_patents_count",
                            "expired_patents_count">>}))

\* _flatten_knowledge_base: the document ids of the entries that are objects
\* with a document_id
flatten_knowledge_base(pharma_data) ==
  IF pharma_data.entries = "object"
    THEN SectionKeys("internal_knowledge_base") ELSE << >>

\* the lookup by document id: the key is matched as given
internal_knowledge_base_api(param, file) ==
  LET doc_id_query == param.value
      pharma_data == load_dataset(file)
      doc_map == flatten_knowledge_base(pharma_data)
  IN IF ~param.present \/ doc_id_query = ""
       THEN MissingParameter("doc_id",
                             "/api/knowledge-base?doc_id=STRAT-2024-001")
     ELSE IF pharma_data.none THEN DatasetNotLoaded
     ELSE IF "internal_knowledge_base" \notin pharma_data.sections
       THEN StructureMismatch("internal_knowledge_base")
     ELSE IF ~InList(doc_id_query, doc_map)
       THEN NotFound("Document ID '" \o doc_id_query \o "' not found.",
                     "available_document_ids", doc_map)
     ELSE Ok({<<"document_metadata.document_id", doc_id_query>>,
              <<"synthetic_pdf_url",
                "/media/synthetic_pdfs/" \o doc_id_query \o ".pdf">>})

patent_analysis_api(param, file) ==
  LET molecule_data == Entry("patent_analysis", Lower(param.value))
  IN KeyedLookup(param, file, <<"molecule",
                 "/api/patent-analysis?molecule=metformin",
                 "patent_analysis", "Molecule", " in patent analysis data",
                 "available_molecules">>,
                 Project(molecule_data,
                         {<<"molecule_name", "molecule">>,
                          <<"molecule_details", "molecule_details">>,
                          <<"fto_status", "fto_status">>,
                          <<"active_patents_us", "active_patents">>,
                          <<"key_expired_patents", "key_expired_patents">>,
                          <<"innovation_trends.strategic_opportunity_analysis",
                            "strategic_opportunity_analysis">>,
                          <<"patent_counts.total_active_family_count",
                            "total_active_family_count">>,
                          <<"patent_counts.total_expired_family_count",
                            "total_expired_family_count">>}))

(***************************************************************************)
(* Capability adapter of the EXIM agent (tools.py get_exim_trade_data),    *)
(* for a gateway that answers.                                             *)
(***************************************************************************)
RECURSIVE JsonList(_)
\* json.dumps of the items of a list of texts
JsonList(list) ==
  IF list = << >> THEN ""
  ELSE "\"" \o Head(list) \o "\"" \o (IF Len(list) > 1 THEN ", " ELSE "")
         \o JsonList(Tail(list))

\* json.dumps(error_data) of the body of an error response
JsonDumpsError(response) ==
  "{\"error\": \"" \o response.error \o "\""
    \o (IF response.usage_example # ""
          THEN ", \"usage_example\": \"" \o response.usage_example \o "\""
          ELSE "")
    \o (IF response.list_name # ""
          THEN ", \"" \o response.list_name \o "\": ["
                 \o JsonList(response.available) \o "]"
          ELSE "")
    \o "}"

\* response.text of a 200 response, cut down to the name field
ResponseText(response) ==
  "{\"molecule_name\": \"" \o DictGet(response.data, "molecule_name", None)
    \o "\"}"

\* mutant: the body of an error response is left out
get_exim_trade_data_nobody(molecule_name, file) ==
  LET response == exim_trade_api(Param(Lower(molecule_name)), file)
  IN IF response.status >= 400
       THEN "API Error: " \o ToString(response.status)
       ELSE ResponseText(response)

\* the text the adapter returns
get_exim_trade_data(molecule_name, file) ==
  LET response == exim_trade_api(Param(Lower(molecule_name)), file)
  IN IF response.status >= 400
       THEN "API Error: " \o ToString(response.status) \o " - "
              \o JsonDumpsError(response)
       ELSE ResponseText(response)

(***************************************************************************)
(* Specialized agents, their capabilities and their iteration bounds.      *)
(***************************************************************************)
Agents ==
  {"exim_agent", "iqvia_agent", "patent_agent", "clinical_trials_agent",
   "internal_agent", "web_agent"}

DataAgents == Agents \ {"web_agent"}

\* self.tools / self.tool_executor of each executor
AgentTools(a) ==
  CASE a = "exim_agent" -> {"get_exim_trade_data"}
    [] a = "iqvia_agent" -> {"get_iqvia_market_data"}
    [] a = "patent_agent" -> {"get_patent_landscape_data"}
    [] a = "clinical_trials_agent" -> {"get_clinical_trials_data"}
    [] a = "internal_agent" -> {"get_internal_document_data"}
    [] OTHER -> {"web_search", "pubmed_search"}

\* mutant: the web agent constructed with the data agents' bound
max_iterations_same(a) == 2

\* the iteration bound each module-level instance is constructed with
max_iterations(a) == IF a = "web_agent" THEN 3 ELSE 2

\* the analysis returned when the loop runs out of iterations
MaxIterMessage(a) ==
  CASE a = "exim_agent" -> "Error: EXIM Trade Agent reached max iterations."
    [] a = "iqvia_agent" -> "Error: IQVIA Agent reached max iterations."
    [] a = "patent_agent" -> "Error: Patent Agent reached max iterations."
    [] a = "clinical_trials_agent" -> "Error: Clinical Trials Agent reached max iterations."
    [] a = "internal_agent" -> "Error: Internal Knowledge Agent reached max iterations."
    [] OTHER -> "Error: Web Intelligence Agent reached max iterations."

(***************************************************************************)
(* The environment: what the reasoning engine and the capabilities answer. *)
(***************************************************************************)
\* text content of a reasoning pass that requests no capability
Contents == {"", "Metformin exports are led by China."}

\* a capability name the engine may ask for that no executor registers
UnknownTool == "generate_report"

\* names the engine may request from agent a
RequestNames(a) == AgentTools(a) \cup {UnknownTool}

\* what the adapters return for a known key and for an unknown one
JsonText == get_exim_trade_data("metformin", DatasetOk)
ErrorText == get_exim_trade_data("xyz", DatasetOk)
ToolTexts == {JsonText, ErrorText}

\* str(e) of an exception raised by a capability or by the engine
ExcText == "Connection refused"

\* what search.run / PubmedQueryRun return
WebText == "Semaglutide news: obesity trial results published."

\* outcome of tool_function.invoke(tool_args): a returned text or an exception
ToolOutcomes(tool_name) ==
  [raised : {FALSE},
   text : IF tool_name \in {"web_search", "pubmed_search"} THEN {WebText}
                                                          ELSE ToolTexts]
    \cup [raised : {TRUE}, text : {ExcText}]

EmptyObj == {}

\* placeholder of a result variable before invoke has returned
NoResult == [analysis |-> "", raw_data |-> EmptyObj]

\* mutant: no text parses
JsonLoads_never(s) == [ok |-> FALSE, value |-> EmptyObj]

\* json.loads on the texts above: the gateway body parses, the rest raises
\* JSONDecodeError
JsonLoads(s) ==
  IF s = JsonText
    THEN [ok |-> TRUE, value |-> {<<"molecule_name", "metformin">>}]
    ELSE [ok |-> FALSE, value |-> EmptyObj]

\* dict item assignment d[k] = v
DictSet(d, k, v) == {p \in d : p[1] # k} \cup {<<k, v>>}

(***************************************************************************)
(* Scratchpad turns.                                                       *)
(***************************************************************************)
\* A Python str that may hold a JSON document: json.dumps builds one from a
\* result dict, any other text is plain.
PlainStr(s) == [is_json |-> FALSE, text |-> s, obj |-> NoResult]

JsonDumps(d) == [is_json |-> TRUE, text |-> "", obj |-> d]

\* json.loads of such a str: the dict, or JSONDecodeError
JsonLoadsDict(x) == [ok |-> x.is_json, value |-> x.obj]

AIMessage(content, calls) ==
  [type |-> "ai", content |-> content, tool_calls |-> calls,
   tool_call_id |-> 0, name |-> "", full_json_for_reporting |-> PlainStr("")]

\* mutant: the capability-result turn does not carry its request's identifier
ToolMessage_noid(content, id, name, full_json) ==
  [type |-> "tool", content |-> content, tool_calls |-> << >>,
   tool_call_id |-> 0, name |-> name, full_json_for_reporting |-> full_json]

\* ToolMessage(content=..., tool_call_id=..., name=...) with its
\* additional_kwargs["full_json_for_reporting"]
ToolMessage(content, id, name, full_json) ==
  [type |-> "tool", content |-> content, tool_calls |-> << >>,
   tool_call_id |-> id, name |-> name, full_json_for_reporting |-> full_json]

(***************************************************************************)
(* Body of the for-loop over tool_calls in the executors' invoke.          *)
(***************************************************************************)
\* mutant: the text counts the turns recorded so far
NotFoundText_counted(tool_name) ==
  "Error: Tool '" \o tool_name \o "' not found (turn "
    \o ToString(Len(agent_scratchpad) + Len(m_scratchpad) + 1) \o ")."

NotFoundText(tool_name) == "Error: Tool '" \o tool_name \o "' not found."

\* mutant: the exception text is dropped
ExecErrorText_noexc(tool_name, e) == "Error executing tool " \o tool_name

ExecErrorText(tool_name, e) == "Error executing tool " \o tool_name \o ": " \o e

\* result_str of one capability call
ResultStr(a, tool_name, outcome) ==
  IF tool_name \in AgentTools(a)
    THEN IF outcome.raised THEN ExecErrorText(tool_name, outcome.text)
                           ELSE outcome.text
    ELSE NotFoundText(tool_name)

\* mutant: raw_data_json is only set by the first capability call
DataRawData_first(a, tool_name, outcome, raw) ==
  LET result_str == ResultStr(a, tool_name, outcome)
  IN IF raw # EmptyObj THEN raw
     ELSE IF tool_name \in AgentTools(a) /\ ~outcome.raised /\ JsonLoads(result_str).ok
       THEN JsonLoads(result_str).value
       ELSE {<<"error", result_str>>}

\* raw_data_json after one capability call of a data agent: overwritten
DataRawData(a, tool_name, outcome, raw) ==
  LET result_str == ResultStr(a, tool_name, outcome)
  IN IF tool_name \in AgentTools(a) /\ ~outcome.raised /\ JsonLoads(result_str).ok
       THEN JsonLoads(result_str).value
       ELSE {<<"error", result_str>>}

\* raw_data_json after one capability call of the web agent: one more key
WebRawData(a, tool_name, id, outcome, raw) ==
  LET result_str == ResultStr(a, tool_name, outcome)
      suffix == IF tool_name \in AgentTools(a) /\ ~outcome.raised
                  THEN "_result_" ELSE "_error_"
  IN DictSet(raw, tool_name \o suffix \o ToString(id), result_str)

RawDataAfter(a, tool_name, id, outcome, raw) ==
  IF a = "web_agent" THEN WebRawData(a, tool_name, id, outcome, raw)
                     ELSE DataRawData(a, tool_name, outcome, raw)

\* mutant: CASE 1 returns a fresh raw_data
FinalResult_fresh(a, content, raw) ==
  [analysis |-> content,
   raw_data |-> IF a = "web_agent"
                  THEN DictSet(EmptyObj, "report_content", content) ELSE EmptyObj]

\* the return value of CASE 1 (no capability requested)
FinalResult(a, content, raw) ==
  [analysis |-> content,
   raw_data |-> IF a = "web_agent"
                  THEN DictSet(raw, "report_content", content) ELSE raw]

\* the return value after the while loop
ExhaustedResult(a, raw) == [analysis |-> MaxIterMessage(a), raw_data |-> raw]

(***************************************************************************)
(* The executors' invoke as one function of what the engine and the        *)
(* capabilities answer (a script: one entry per reasoning pass), used      *)
(* where invoke runs inside a wrapper capability of the dispatcher.        *)
(***************************************************************************)
RECURSIVE RawAfterCalls(_, _, _, _)
\* the for-loop over the requests of one pass: raw_data_json after it
RawAfterCalls(a, calls, first, raw) ==
  IF calls = << >> THEN raw
  ELSE RawAfterCalls(a, Tail(calls), first + 1,
                     RawDataAfter(a, Head(calls).name, first + 1,
                                  Head(calls).outcome, raw))

RECURSIVE AgentLoop(_, _, _, _, _)
\* the while-loop: [raised, exc, result]
AgentLoop(a, script, cnt, first, raw) ==
  IF cnt >= max_iterations(a)
    THEN [raised |-> FALSE, exc |-> "", result |-> ExhaustedResult(a, raw)]
  ELSE IF script = << >> \/ Head(script).fails
    THEN [raised |-> TRUE, exc |-> ExcText, result |-> NoResult]
  ELSE IF Head(script).calls = << >>
    THEN [raised |-> FALSE, exc |-> "",
          result |-> FinalResult(a, Head(script).content, raw)]
  ELSE AgentLoop(a, Tail(script), cnt + 1, first + Len(Head(script).calls),
                 RawAfterCalls(a, Head(script).calls, first, raw))

AgentInvokeResult(a, script) == AgentLoop(a, script, 0, 0, EmptyObj)

(***************************************************************************)
(* Wrapper capabilities of the dispatcher (invoke_tools.py).               *)
(***************************************************************************)
\* master_tools: the capabilities bound to the planning pass
master_tools ==
  {"iqvia_insights", "invoke_web_intelligence_agent", "invoke_exim_trade_agent",
   "invoke_patent_landscape_agent", "invoke_clinical_trials_agent",
   "invoke_internal_knowledge_agent"}

\* mutant: Phase 2 can execute the capabilities bound to the planning pass
\* and no other
tool_executor_bound == master_tools

\* tool_executor: the names Phase 2 can execute
tool_executor == master_tools \cup {"web_search", "pubmed_search"}

\* the agent get_agent(...) hands to each wrapper
WrappedAgent(tool_name) ==
  CASE tool_name = "invoke_exim_trade_agent" -> "exim_agent"
    [] tool_name = "iqvia_insights" -> "iqvia_agent"
    [] tool_name = "invoke_patent_landscape_agent" -> "patent_agent"
    [] tool_name = "invoke_clinical_trials_agent" -> "clinical_trials_agent"
    [] tool_name = "invoke_internal_knowledge_agent" -> "internal_agent"
    [] OTHER -> "web_agent"

\* the agent name the wrappers put in their error texts
WrapperLabel(tool_name) ==
  CASE tool_name = "invoke_exim_trade_agent" -> "EXIM Trends Agent"
    [] tool_name = "iqvia_insights" -> "IQVIA Insights Agent"
    [] tool_name = "invoke_patent_landscape_agent" -> "Patent Landscape Agent"
    [] tool_name = "invoke_clinical_trials_agent" -> "Clinical Trials Agent"
    [] tool_name = "invoke_internal_knowledge_agent" -> "Internal Knowledge Agent"
    [] OTHER -> "Web Intelligence Agent"

\* mutant: the except clause returns the text of the exception, not a dict
WrapperReturn_text(tool_name, run) ==
  IF run.raised THEN PlainStr(run.exc) ELSE JsonDumps(run.result)

\* try: json.dumps(agent.invoke(query)) except Exception: json.dumps({...})
WrapperReturn(tool_name, run) ==
  IF run.raised
    THEN JsonDumps([analysis |-> "Error during " \o WrapperLabel(tool_name)
                                   \o " invocation: " \o run.exc,
                    raw_data |-> {<<"error", run.exc>>}])
    ELSE JsonDumps(run.result)

\* one reasoning pass of a script
ScriptFail == [fails |-> TRUE, content |-> "", calls |-> << >>]

ScriptFinal(content) == [fails |-> FALSE, content |-> content, calls |-> << >>]

ScriptCall(tool_name, outcome) ==
  [fails |-> FALSE, content |-> "",
   calls |-> <<[name |-> tool_name, outcome |-> outcome]>>]

\* the engine and capability behaviours explored for an agent that runs inside
\* a wrapper: answers after one call, fails at once, asks for a call forever
WrapperScripts(a) ==
  LET t == CHOOSE n \in AgentTools(a) : TRUE
      ok == CHOOSE o \in ToolOutcomes(t) : ~o.raised /\ o.text # ErrorText
  IN {<<ScriptCall(t, ok), ScriptFinal("Metformin exports are led by China.")>>,
      <<ScriptFail>>,
      [i \in 1..max_iterations(a) |-> ScriptCall(t, ok)]}

\* what a wrapper gives its caller: the str it returns; no statement of a
\* wrapper is outside its try block but get_agent and the prints, which do
\* not raise
Returns(value) == [raised |-> FALSE, exc |-> "", value |-> value]

\* the dict the wrappers return for an agent that is None
NotInitialized(analysis) ==
  JsonDumps([analysis |-> analysis,
             raw_data |-> {<<"error", "Agent not initialized">>}])

\* the six wrappers, as functions of what get_agent returns (the executor's
\* name, or None when the registry has no usable entry) and of what the
\* engine and the capabilities answer during invoke
invoke_exim_trade_agent(agent, script) ==
  IF agent = None
    THEN Returns(NotInitialized("Error: The EXIM Trends Agent is not initialized."))
    ELSE Returns(WrapperReturn("invoke_exim_trade_agent",
                               AgentInvokeResult(agent, script)))

iqvia_insights(agent, script) ==
  IF agent = None
    THEN Returns(PlainStr("--- IQVIA Agent not initialized ---"))
    ELSE Returns(WrapperReturn("iqvia_insights",
                               AgentInvokeResult(agent, script)))

invoke_patent_landscape_agent(agent, script) ==
  IF agent = None
    THEN Returns(NotInitialized("Error: The Patent Landscape Agent is not initialized."))
    ELSE Returns(WrapperReturn("invoke_patent_landscape_agent",
                               AgentInvokeResult(agent, script)))

invoke_clinical_trials_agent(agent, script) ==
  IF agent = None
    THEN Returns(PlainStr("--- Clinical Trials Agent not initialized ---"))
    ELSE Returns(WrapperReturn("invoke_clinical_trials_agent",
                               AgentInvokeResult(agent, script)))

invoke_internal_knowledge_agent(agent, script) ==
  IF agent = None
    THEN Returns(PlainStr("--- Internal Knowledge Agent not initialized ---"))
    ELSE Returns(WrapperReturn("invoke_internal_knowledge_agent",
                               AgentInvokeResult(agent, script)))

invoke_web_intelligence_agent(agent, script) ==
  IF agent = None
    THEN Returns(NotInitialized("Error: Web Intelligence Agent is not initialized."))
    ELSE Returns(WrapperReturn("invoke_web_intelligence_agent",
                               AgentInvokeResult(agent, script)))

\* one reasoning pass: it raises, answers, or requests one capability
ScriptPasses(a) ==
  {ScriptFail}
    \cup {ScriptFinal(c) : c \in Contents}
    \cup UNION {{ScriptCall(t, o) : o \in ToolOutcomes(t)} : t \in RequestNames(a)}

\* scripts of exactly n passes: every pass but the last requests a
\* capability, and the last one ends invoke unless the bound does
ScriptsOfLength(a, n) ==
  {s \in [1..n -> ScriptPasses(a)] :
     /\ \A i \in 1..(n - 1) : s[i].calls # << >>
     /\ s[n].calls = << >> \/ n = max_iterations(a)}

\* every course invoke can take
AllScripts(a) == UNION {ScriptsOfLength(a, n) : n \in 1..max_iterations(a)}

\* what tool_function.invoke(tool_args) gives the dispatcher: the returned
\* str, or an exception (arguments rejected by the schema, network failure)
MasterToolOutcomes(tool_name) ==
  IF tool_name \in master_tools
    THEN {[raised |-> FALSE, exc |-> "",
           value |-> WrapperReturn(tool_name,
                                   AgentInvokeResult(WrappedAgent(tool_name), s))] :
            s \in WrapperScripts(WrappedAgent(tool_name))}
         \cup {[raised |-> TRUE, exc |-> ExcText, value |-> PlainStr("")]}
    ELSE {[raised |-> FALSE, exc |-> "", value |-> PlainStr(WebText)],
          [raised |-> TRUE, exc |-> ExcText, value |-> PlainStr("")]}

(***************************************************************************)
(* Master Dispatcher: report detection, Phase 2 and Phase 4 helpers.       *)
(***************************************************************************)
\* user queries: lists of words
Queries ==
  {<<"trade", "trends">>, <<"Report">>, <<"PDF">>, <<"Excel">>,
   <<"REPORT", "excel">>, <<"pdf", "EXCEL">>, <<"reports", "PDF">>,
   <<"Report", "pdf", "Excel">>}

\* cue in word, for lower-case words
IsSubstring(cue, w) == w = cue \/ (cue = "report" /\ w = "reports")

\* cue in user_prompt.lower()
InQueryLower(cue, q) == \E i \in 1..Len(q) : IsSubstring(cue, Lower(q[i]))

\* mutant: only the cue "report" asks for a report
report_requested_of_strict(q) == InQueryLower("report", q)

report_requested_of(q) ==
  InQueryLower("report", q) \/ InQueryLower("pdf", q) \/ InQueryLower("excel", q)

\* mutant: the cues are looked up in the query as typed, not lower-cased
report_format_of_cased(q) ==
  LET has(cue) == \E i \in 1..Len(q) : IsSubstring(cue, q[i])
  IN IF has("pdf") /\ has("excel") THEN "both"
     ELSE IF has("excel") THEN "excel"
     ELSE IF has("pdf") \/ has("report") THEN "pdf"
     ELSE None

\* mutant: the word "report" alone selects no format
report_format_of_explicit(q) ==
  IF InQueryLower("pdf", q) /\ InQueryLower("excel", q) THEN "both"
  ELSE IF InQueryLower("excel", q) THEN "excel"
  ELSE IF InQueryLower("pdf", q) THEN "pdf"
  ELSE None

report_format_of(q) ==
  IF InQueryLower("pdf", q) /\ InQueryLower("excel", q) THEN "both"
  ELSE IF InQueryLower("excel", q) THEN "excel"
  ELSE IF InQueryLower("pdf", q) \/ InQueryLower("report", q) THEN "pdf"
  ELSE None

\* analysis_content and full_result_for_reporting of one planned call
MasterToolResult(tool_name, outcome) ==
  IF tool_name \notin tool_executor
    THEN [analysis_content |-> NotFoundText(tool_name),
          full |-> [analysis |-> NotFoundText(tool_name),
                    raw_data |-> {<<"error", "Tool not found">>}]]
  ELSE IF outcome.raised
    THEN [analysis_content |-> ExecErrorText(tool_name, outcome.exc),
          full |-> [analysis |-> ExecErrorText(tool_name, outcome.exc),
                    raw_data |-> {<<"error", outcome.exc>>}]]
  ELSE IF JsonLoadsDict(outcome.value).ok
    THEN [analysis_content |-> JsonLoadsDict(outcome.value).value.analysis,
          full |-> JsonLoadsDict(outcome.value).value]
  ELSE [analysis_content |-> outcome.value.text,
        full |-> [analysis |-> outcome.value.text,
                  raw_data |-> {<<"error", "String output, not JSON">>}]]

\* the tool message Phase 2 appends for one planned call
MasterToolMessage(tool_call, outcome) ==
  LET r == MasterToolResult(tool_call.name, outcome)
  IN ToolMessage(r.analysis_content, tool_call.id, tool_call.name,
                 JsonDumps(r.full))

RECURSIVE Join_reversed(_)
\* mutant: the fragments are joined last first
Join_reversed(chunks) ==
  IF chunks = << >> THEN "" ELSE Join_reversed(Tail(chunks)) \o Head(chunks)

RECURSIVE Join(_)
\* "".join(chunks)
Join(chunks) == IF chunks = << >> THEN "" ELSE Head(chunks) \o Join(Tail(chunks))

\* agent_name_map.get(name, name)
AgentDisplayName(tool_name) ==
  CASE tool_name = "invoke_internal_knowledge_agent" -> "Internal Knowledge Agent"
    [] tool_name = "invoke_clinical_trials_agent" -> "Clinical Trials Agent"
    [] tool_name = "invoke_patent_landscape_agent" -> "Patent Landscape Agent"
    [] tool_name = "invoke_exim_trade_agent" -> "EXIM Trends Agent"
    [] tool_name = "iqvia_insights" -> "IQVIA Insights Agent"
    [] tool_name = "invoke_web_intelligence_agent" -> "Web Intelligence Agent"
    [] OTHER -> tool_name

\* mutant: the entry's analysis is the default text, not the retained one
ReportEntry_default(tool_msg) ==
  LET parsed == JsonLoadsDict(tool_msg.full_json_for_reporting)
      agent_name == AgentDisplayName(tool_msg.name)
  IN [agent |-> agent_name,
      analysis |-> "No analysis provided.",
      sources |-> <<"Source: " \o agent_name>>,
      raw_data |-> IF parsed.ok THEN parsed.value.raw_data
                   ELSE {<<"analysis_summary", tool_msg.content>>,
                         <<"error", "Could not parse full_json_for_reporting">>}]

\* one entry of agent_responses_list
ReportEntry(tool_msg) ==
  LET parsed == JsonLoadsDict(tool_msg.full_json_for_reporting)
      agent_name == AgentDisplayName(tool_msg.name)
  IN [agent |-> agent_name,
      analysis |-> IF parsed.ok THEN parsed.value.analysis ELSE tool_msg.content,
      sources |-> <<"Source: " \o agent_name>>,
      raw_data |-> IF parsed.ok THEN parsed.value.raw_data
                   ELSE {<<"analysis_summary", tool_msg.content>>,
                         <<"error", "Could not parse full_json_for_reporting">>}]

\* agent_responses_list: one entry per ToolMessage of the scratchpad, in order
AgentResponsesList(scratchpad) ==
  LET tool_messages == SelectSeq(scratchpad, LAMBDA m : m.type = "tool")
  IN [i \in 1..Len(tool_messages) |-> ReportEntry(tool_messages[i])]

(***************************************************************************)
(* Report renderer entry point (report_generator.py generate_report).      *)
(***************************************************************************)
PdfName == "pharma_innovation_report_20240101_120000.pdf"
ExcelName == "pharma_innovation_data_20240101_120000.xlsx"

\* os.path.join(self.reports_dir, filename)
PdfPath == "reports/" \o PdfName
ExcelPath == "reports/" \o ExcelName

\* outcomes of the rendering routines: each writes its file or raises
RenderOutcomes == [pdf_ok : BOOLEAN, excel_ok : BOOLEAN]

\* the dict the except clause of generate_report returns
ReportError ==
  {<<"agent", "Report Generator Agent">>, <<"status", "error">>,
   <<"message", "Error generating report: " \o ExcText>>}

\* the dict generate_report returns, as a set of <<key, value>> pairs
generate_report(format, out) ==
  IF format = "pdf"
    THEN IF out.pdf_ok
           THEN {<<"agent", "Report Generator Agent">>, <<"status", "success">>,
                 <<"format", "PDF">>, <<"filepath", PdfPath>>,
                 <<"message", "PDF report generated successfully: " \o PdfName>>}
           ELSE ReportError
  ELSE IF format = "excel"
    THEN IF out.excel_ok
           THEN {<<"agent", "Report Generator Agent">>, <<"status", "success">>,
                 <<"format", "Excel">>, <<"filepath", ExcelPath>>,
                 <<"message", "Excel report generated successfully: " \o ExcelName>>}
           ELSE ReportError
  ELSE IF out.pdf_ok /\ out.excel_ok
    THEN {<<"agent", "Report Generator Agent">>, <<"status", "success">>,
          <<"format", "PDF & Excel">>,
          <<"pdf_filepath", PdfPath>>, <<"excel_filepath", ExcelPath>>,
          <<"message", "Reports generated: " \o PdfName \o " and " \o ExcelName>>}
    ELSE ReportError

ReportFailedPrefix == "\n\n**Report Generation Failed:**\n"

\* mutant: the renderer's status is not looked at
ConfirmationOf_path(report_result) ==
  "\n\n**Report File:**\n"
    \o DictGet(report_result, "filepath", "Failed to get path")

\* report_confirmation after the renderer returned report_result
ConfirmationOf(report_result) ==
  IF DictGet(report_result, "status", None) = "success"
    THEN "\n\n**Report File:**\n"
           \o DictGet(report_result, "filepath", "Failed to get path")
    ELSE ReportFailedPrefix \o DictGet(report_result, "message", "Unknown error")

\* report_confirmation when the try block raised e
ConfirmationOfException(e) == ReportFailedPrefix \o e

(***************************************************************************)
(* Streaming service helpers (agent_service.py).                           *)
(***************************************************************************)
\* the i-th fragment of a streaming pass
Fragment(i) == "fragment " \o ToString(i) \o ". "

\* what the dispatcher yields: a message chunk (has .content) or a plain str
MessageChunk(content) == [has_content |-> TRUE, content |-> content]

StrChunk(text) == [has_content |-> FALSE, content |-> text]

\* _chunk_to_payload
chunk_to_payload(chunk) == chunk.content

\* the SSE events the service emits
ChunkEvent(chunk) == [type |-> "chunk", payload |-> chunk_to_payload(chunk)]

ErrorEvent(e) == [type |-> "error", payload |-> "Streaming error: " \o e]

DoneEvent == [type |-> "done", payload |-> ""]

(***************************************************************************)
(* Non-streaming chat endpoint (backend/views.py chat_agent) and the bytes *)
(* it reads from the streaming service.  Here a text is a sequence of      *)
(* pieces: runs of ordinary characters and single special characters.      *)
(***************************************************************************)
Newline == "\n"
Quote == "\""
Backslash == "\\"
\* the character U+2028 LINE SEPARATOR
LineSeparator == "U+2028"

\* the escape json.dumps(..., ensure_ascii=False) writes for one character:
\* quote, backslash and the control characters are escaped, everything else
\* (non-ASCII included) is written as it is
EscapeChar(c) ==
  CASE c = Quote -> <<Backslash, Quote>>
    [] c = Backslash -> <<Backslash, Backslash>>
    [] c = Newline -> <<Backslash, "n">>
    [] OTHER -> <<c>>

RECURSIVE JsonEscape(_)
JsonEscape(text) ==
  IF text = << >> THEN << >>
  ELSE EscapeChar(Head(text)) \o JsonEscape(Tail(text))

\* json.dumps({key: text}, ensure_ascii=False)
JsonDumpsEvent(key, text) ==
  <<"{", Quote, key, Quote, ": ", Quote>> \o JsonEscape(text) \o <<Quote, "}">>

\* json.dumps({'done': True})
JsonDumpsDone == <<"{", Quote, "done", Quote, ": ", "true", "}">>

\* f"data: {...}\n\n".encode("utf-8")
SseBytes(json) == <<"data: ">> \o json \o <<Newline, Newline>>

\* what stream_master_agent_response yields for a dispatcher run that
\* yields run.payloads and then returns (failure None) or raises
SseStream(run) ==
  [i \in 1..Len(run.payloads) |->
     SseBytes(JsonDumpsEvent("chunk", run.payloads[i]))]
  \o (IF run.failure = None THEN << >>
      ELSE <<SseBytes(JsonDumpsEvent("error",
                        <<"Streaming error: ">> \o run.failure))>>)
  \o <<SseBytes(JsonDumpsDone)>>

\* the characters str.splitlines() breaks a line at
LineBoundaries == {Newline, LineSeparator}

RECURSIVE SplitFrom(_, _)
SplitFrom(s, line) ==
  IF s = << >> THEN (IF line = << >> THEN << >> ELSE <<line>>)
  ELSE IF Head(s) \in LineBoundaries
    THEN <<line>> \o SplitFrom(Tail(s), << >>)
  ELSE SplitFrom(Tail(s), Append(line, Head(s)))

\* s.splitlines()
splitlines(s) == SplitFrom(s, << >>)

RECURSIVE WellEscaped(_)
\* the inside of a JSON string literal: no bare quote or control character,
\* every backslash starts an escape
WellEscaped(body) ==
  IF body = << >> THEN TRUE
  ELSE IF Head(body) = Backslash
    THEN /\ Len(body) >= 2
         /\ body[2] \in {Quote, Backslash, "n"}
         /\ WellEscaped(Tail(Tail(body)))
  ELSE IF Head(body) \in {Quote, Newline} THEN FALSE
  ELSE WellEscaped(Tail(body))

RECURSIVE Unescape(_)
Unescape(body) ==
  IF body = << >> THEN << >>
  ELSE IF Head(body) = Backslash
    THEN <<IF body[2] = "n" THEN Newline ELSE body[2]>>
           \o Unescape(Tail(Tail(body)))
  ELSE <<Head(body)>> \o Unescape(Tail(body))

\* json.loads(raw) for the objects the service writes: [ok, key, value],
\* ok FALSE when it raises JSONDecodeError
JsonLoadsEvent(raw) ==
  IF raw = JsonDumpsDone
    THEN [ok |-> TRUE, key |-> "done", value |-> <<"true">>]
  ELSE IF /\ Len(raw) >= 8
          /\ SubSeq(raw, 1, 2) = <<"{", Quote>>
          /\ SubSeq(raw, 4, 6) = <<Quote, ": ", Quote>>
          /\ SubSeq(raw, Len(raw) - 1, Len(raw)) = <<Quote, "}">>
          /\ WellEscaped(SubSeq(raw, 7, Len(raw) - 2))
    THEN [ok |-> TRUE, key |-> raw[3],
          value |-> Unescape(SubSeq(raw, 7, Len(raw) - 2))]
  ELSE [ok |-> FALSE, key |-> "", value |-> << >>]

\* what repr() of a bytes object writes for one character
ReprChar(c) ==
  CASE c = Newline -> <<Backslash, "n">>
    [] c = Backslash -> <<Backslash, Backslash>>
    [] c = LineSeparator ->
         <<Backslash, "xe2", Backslash, "x80", Backslash, "xa8">>
    [] OTHER -> <<c>>

RECURSIVE ReprBody(_)
ReprBody(bytes) ==
  IF bytes = << >> THEN << >>
  ELSE ReprChar(Head(bytes)) \o ReprBody(Tail(bytes))

\* str(chunk) of a bytes chunk
StrOfBytes(bytes) == <<"b'">> \o ReprBody(bytes) \o <<"'">>

RECURSIVE LinesLoop(_, _)
\* for line in s.splitlines(): [full, how], how "next" when the loop ends,
\* "raised" when json.loads raises, "error" when the view returns status 500
LinesLoop(lines, full) ==
  IF lines = << >> THEN [full |-> full, how |-> "next", error |-> << >>]
  ELSE IF Head(lines) = << >> \/ Head(Head(lines)) # "data: "
    THEN LinesLoop(Tail(lines), full)
  ELSE LET obj == JsonLoadsEvent(Tail(Head(lines)))
           appended == IF obj.key = "chunk" /\ obj.value # << >>
                         THEN Append(full, obj.value) ELSE full
       IN IF ~obj.ok
            THEN [full |-> full, how |-> "raised", error |-> << >>]
          ELSE IF obj.key = "error" /\ obj.value # << >>
            THEN [full |-> appended, how |-> "error", error |-> obj.value]
          ELSE LinesLoop(Tail(lines), appended)

RECURSIVE JoinTexts(_)
\* "".join(full)
JoinTexts(full) ==
  IF full = << >> THEN << >> ELSE Head(full) \o JoinTexts(Tail(full))

\* HttpResponseBadRequest / JsonResponse
HttpResponse(status, key, text) == [status |-> status, key |-> key, text |-> text]

RECURSIVE ChunksLoop(_, _)
\* for chunk in stream_master_agent_response(query), then the final return
ChunksLoop(stream, full) ==
  IF stream = << >> THEN HttpResponse(200, "response", JoinTexts(full))
  ELSE LET r == LinesLoop(splitlines(Head(stream)), full)
       IN IF r.how = "error" THEN HttpResponse(500, "error", r.error)
          ELSE IF r.how = "raised"
            THEN ChunksLoop(Tail(stream),
                            Append(r.full, StrOfBytes(Head(stream))))
          ELSE ChunksLoop(Tail(stream), r.full)

\* the POST bodies: not JSON, JSON without a query, JSON with a query
Bodies == {"invalid json", "no query", "query"}

\* chat_agent(request), given what the dispatcher does for the query
chat_agent(body, run) ==
  IF body = "invalid json" THEN HttpResponse(400, "error", <<"invalid json">>)
  ELSE IF body = "no query"
    THEN HttpResponse(400, "error", <<"query field is required">>)
  ELSE ChunksLoop(SseStream(run), << >>)

(***************************************************************************)
(* Groups of variables and the initial state.                             *)
(***************************************************************************)
agentVars ==
  <<self, a_pc, count, agent_scratchpad, raw_data_json, tool_calls, a_result,
    passes, observed, issued>>

masterVars ==
  <<m_pc, user_prompt, report_requested, report_format, m_scratchpad,
    m_tool_calls, final_summary_chunks>>

serviceVars == <<s_pc, events>>

historyVars ==
  <<trace, planned, produced, engine_failed, renderer_calls, render_failed,
    disconnect>>

reportVars == <<now, renders, reports_dir>>

frameVars == <<frames, invocations>>

gatewayVars == <<dataset, gw_request, gw_response>>

chatVars == <<chat_request, chat_response>>

wrapperVars == <<w_call, w_return>>

chartVars == <<chart_clock, temp_dir, pdfs>>

concurrentVars ==
  <<reportVars, frameVars, gatewayVars, chatVars, wrapperVars, chartVars>>

vars ==
  <<mode, agentVars, masterVars, serviceVars, historyVars, concurrentVars>>

NoDisconnect == [phase |-> "none", nevents |-> 0]

\* no invoke is running
AgentIdle ==
  /\ self = "exim_agent"
  /\ a_pc = "returned"
  /\ count = 0
  /\ agent_scratchpad = << >>
  /\ raw_data_json = EmptyObj
  /\ tool_calls = << >>
  /\ a_result = NoResult
  /\ passes = 0
  /\ observed = << >>
  /\ issued = 0

\* the locals of invoke are dropped
AgentReset ==
  /\ self' = "exim_agent"
  /\ a_pc' = "returned"
  /\ count' = 0
  /\ agent_scratchpad' = << >>
  /\ raw_data_json' = EmptyObj
  /\ tool_calls' = << >>
  /\ a_result' = NoResult
  /\ passes' = 0
  /\ observed' = << >>
  /\ issued' = 0

\* no request is being served
ServiceIdle ==
  /\ m_pc = "closed"
  /\ user_prompt = << >>
  /\ report_requested = FALSE
  /\ report_format = None
  /\ m_scratchpad = << >>
  /\ m_tool_calls = << >>
  /\ final_summary_chunks = << >>
  /\ s_pc = "ended"
  /\ events = << >>
  /\ trace = << >>
  /\ planned = -1
  /\ produced = << >>
  /\ engine_failed = "no"
  /\ renderer_calls = << >>
  /\ render_failed = FALSE
  /\ disconnect = NoDisconnect

\* the locals of both generators are dropped
ServiceReset ==
  /\ m_pc' = "closed"
  /\ user_prompt' = << >>
  /\ report_requested' = FALSE
  /\ report_format' = None
  /\ m_scratchpad' = << >>
  /\ m_tool_calls' = << >>
  /\ final_summary_chunks' = << >>
  /\ s_pc' = "ended"
  /\ events' = << >>
  /\ trace' = << >>
  /\ planned' = -1
  /\ produced' = << >>
  /\ engine_failed' = "no"
  /\ renderer_calls' = << >>
  /\ render_failed' = FALSE
  /\ disconnect' = NoDisconnect

\* the two invocations that run interleaved
Slots == {1, 2}

\* a generate_report call that has not started
NoRender ==
  [format |-> None, pc |-> "idle", pdf |-> "", excel |-> "", written |-> {}]

\* the locals of an invoke that has not started
NoFrame ==
  [count |-> 0, agent_scratchpad |-> << >>, raw_data_json |-> EmptyObj,
   tool_calls |-> << >>]

\* an invocation that has not started
NoInvocation ==
  [executor |-> None, pc |-> "idle", plan |-> << >>, responses |-> << >>,
   issued |-> 0, result |-> NoResult, retained |-> << >>]

\* no lookup has been requested
NoRequest == [endpoint |-> None, param |-> NoParam]

NoResponse == JsonResponse(0, "", "", "", << >>, {})

\* the dispatcher run of a request that never reached the dispatcher
NoRun == [payloads |-> << >>, failure |-> None]

\* no POST has been made to the chat endpoint
NoChatRequest == [body |-> None, run |-> NoRun]

NoChatResponse == HttpResponse(0, "", << >>)

\* no wrapper has been called
NoCall == [name |-> None, agent |-> None, script |-> << >>]

NoReturn == Returns(PlainStr(""))

\* a generate_pdf_report call that has not started
NoPdf ==
  [pc |-> "idle", charts |-> 0, chart_path |-> None, images |-> << >>,
   listing |-> {}, read |-> << >>]

\* nothing runs concurrently
ConcurrentIdle ==
  /\ now = 0
  /\ renders = [i \in Slots |-> NoRender]
  /\ reports_dir = {}
  /\ frames = [i \in Slots |-> NoFrame]
  /\ invocations = [i \in Slots |-> NoInvocation]
  /\ dataset = DatasetOk
  /\ gw_request = NoRequest
  /\ gw_response = NoResponse
  /\ chat_request = NoChatRequest
  /\ chat_response = NoChatResponse
  /\ w_call = NoCall
  /\ w_return = NoReturn
  /\ chart_clock = 0
  /\ temp_dir = {}
  /\ pdfs = [i \in Slots |-> NoPdf]

Init == mode = "idle" /\ AgentIdle /\ ServiceIdle /\ ConcurrentIdle

(***************************************************************************)
(* Specialized agent: invoke(query).                                       *)
(***************************************************************************)
\* entry of invoke: the locals are initialised
AgentInvoke ==
  /\ mode = "idle"
  /\ \E a \in Agents : self' = a
  /\ mode' = "agent"
  /\ a_pc' = "while"
  /\ count' = 0
  /\ agent_scratchpad' = << >>
  /\ raw_data_json' = EmptyObj
  /\ tool_calls' = << >>
  /\ a_result' = NoResult
  /\ passes' = 0
  /\ observed' = << >>
  /\ issued' = 0
  /\ UNCHANGED <<masterVars, serviceVars, historyVars>>
  /\ UNCHANGED concurrentVars

\* sequences of k requests with fresh call identifiers first+1 .. first+k
Requests(names, first, k) ==
  {[i \in 1..k |-> [name |-> f[i], id |-> first + i]] : f \in [1..k -> names]}

\* the reasoning pass raises: invoke propagates the exception
AgentReasonFails ==
  /\ mode = "agent" /\ a_pc = "while" /\ count < max_iterations(self)
  /\ a_pc' = "raised"
  /\ passes' = passes + 1
  /\ UNCHANGED <<mode, self, count, agent_scratchpad, raw_data_json, tool_calls,
                 a_result, observed, issued>>
  /\ UNCHANGED <<masterVars, serviceVars, historyVars>>
  /\ UNCHANGED concurrentVars

\* the reasoning pass requests no capability: CASE 1, return
AgentReasonFinal ==
  /\ mode = "agent" /\ a_pc = "while" /\ count < max_iterations(self)
  /\ \E content \in Contents :
       a_result' = FinalResult(self, content, raw_data_json)
  /\ a_pc' = "returned"
  /\ passes' = passes + 1
  /\ UNCHANGED <<mode, self, count, agent_scratchpad, raw_data_json, tool_calls,
                 observed, issued>>
  /\ UNCHANGED <<masterVars, serviceVars, historyVars>>
  /\ UNCHANGED concurrentVars

\* the reasoning pass requests capabilities: CASE 2, the turn is appended
AgentReasonCalls ==
  /\ mode = "agent" /\ a_pc = "while" /\ count < max_iterations(self)
  /\ \E k \in 1..(MaxToolCalls - issued) :
       \E calls \in Requests(RequestNames(self), issued, k) :
         /\ agent_scratchpad' = Append(agent_scratchpad, AIMessage("", calls))
         /\ tool_calls' = calls
         /\ issued' = issued + k
  /\ a_pc' = "for"
  /\ passes' = passes + 1
  /\ UNCHANGED <<mode, self, count, raw_data_json, a_result, observed>>
  /\ UNCHANGED <<masterVars, serviceVars, historyVars>>
  /\ UNCHANGED concurrentVars

\* one turn of the for-loop; after the last request count is incremented
AgentToolCall ==
  /\ mode = "agent" /\ a_pc = "for" /\ tool_calls # << >>
  /\ LET tool_call == Head(tool_calls)
     IN \E outcome \in ToolOutcomes(tool_call.name) :
          /\ raw_data_json' = RawDataAfter(self, tool_call.name, tool_call.id,
                                           outcome, raw_data_json)
          /\ agent_scratchpad' =
               Append(agent_scratchpad,
                      ToolMessage(ResultStr(self, tool_call.name, outcome),
                                  tool_call.id, "", PlainStr("")))
          /\ observed' =
               Append(observed,
                      [name |-> tool_call.name, id |-> tool_call.id,
                       outcome |-> outcome])
  /\ tool_calls' = Tail(tool_calls)
  /\ IF Len(tool_calls) = 1
       THEN count' = count + 1 /\ a_pc' = "while"
       ELSE count' = count /\ a_pc' = "for"
  /\ UNCHANGED <<mode, self, a_result, passes, issued>>
  /\ UNCHANGED <<masterVars, serviceVars, historyVars>>
  /\ UNCHANGED concurrentVars

\* mutant: when the while condition fails the scratchpad is submitted once
\* more and the engine's answer is returned
AgentExhausted_final_pass ==
  /\ mode = "agent" /\ a_pc = "while" /\ count >= max_iterations(self)
  /\ \E content \in Contents :
       a_result' = FinalResult(self, content, raw_data_json)
  /\ a_pc' = "returned"
  /\ passes' = passes + 1
  /\ UNCHANGED <<mode, self, count, agent_scratchpad, raw_data_json, tool_calls,
                 observed, issued>>
  /\ UNCHANGED <<masterVars, serviceVars, historyVars>>
  /\ UNCHANGED concurrentVars

\* the while condition fails: the iteration-exhaustion return
AgentExhausted ==
  /\ mode = "agent" /\ a_pc = "while" /\ count >= max_iterations(self)
  /\ a_result' = ExhaustedResult(self, raw_data_json)
  /\ a_pc' = "returned"
  /\ UNCHANGED <<mode, self, count, agent_scratchpad, raw_data_json, tool_calls,
                 passes, observed, issued>>
  /\ UNCHANGED <<masterVars, serviceVars, historyVars>>
  /\ UNCHANGED concurrentVars

\* the caller has the result (or the exception); the locals are dropped
AgentDone ==
  /\ mode = "agent" /\ a_pc \in {"returned", "raised"}
  /\ mode' = "idle"
  /\ AgentReset
  /\ UNCHANGED <<masterVars, serviceVars, historyVars>>
  /\ UNCHANGED concurrentVars

(***************************************************************************)
(* Streaming service and Master Dispatcher.                                *)
(***************************************************************************)
\* the view calls stream_master_agent_response(query): a generator object
ServiceRequest ==
  /\ mode = "idle"
  /\ mode' = "service"
  /\ \E q \in Queries : user_prompt' = q
  /\ s_pc' = "created"
  /\ m_pc' = "created"
  /\ UNCHANGED <<report_requested, report_format, m_scratchpad, m_tool_calls,
                 final_summary_chunks, events>>
  /\ UNCHANGED <<agentVars, historyVars>>
  /\ UNCHANGED concurrentVars

\* mutant: the service has no except clause; the stream just stops
RaiseToService_silent(phase) ==
  /\ m_pc' = "raised"
  /\ engine_failed' = phase
  /\ events' = events
  /\ s_pc' = "ended"

\* the exception leaves the dispatcher; the service's except clause yields
\* one error event
RaiseToService(phase) ==
  /\ m_pc' = "raised"
  /\ engine_failed' = phase
  /\ events' = Append(events, ErrorEvent(ExcText))
  /\ s_pc' = "at_error"

\* first next(): the service starts the dispatcher, which runs its setup and
\* the planning pass; here the planning pass raises
PlanFails ==
  /\ mode = "service" /\ s_pc = "created"
  /\ report_requested' = report_requested_of(user_prompt)
  /\ report_format' = report_format_of(user_prompt)
  /\ trace' = Append(trace, "plan")
  /\ RaiseToService("plan")
  /\ UNCHANGED <<mode, user_prompt, m_scratchpad, m_tool_calls,
                 final_summary_chunks>>
  /\ UNCHANGED <<agentVars, planned, produced, renderer_calls, render_failed,
                 disconnect>>
  /\ UNCHANGED concurrentVars

\* mutant: with no capability requested the web agent is run by default
PlanChat_fallback ==
  /\ mode = "service" /\ s_pc = "created"
  /\ report_requested' = report_requested_of(user_prompt)
  /\ report_format' = report_format_of(user_prompt)
  /\ trace' = Append(trace, "plan")
  /\ planned' = 0
  /\ m_tool_calls' = <<[name |-> "invoke_web_intelligence_agent", id |-> 1]>>
  /\ m_pc' = "phase2"
  /\ s_pc' = "iterating"
  /\ UNCHANGED <<mode, user_prompt, m_scratchpad, final_summary_chunks, events>>
  /\ UNCHANGED <<agentVars, produced, engine_failed, renderer_calls,
                 render_failed, disconnect>>
  /\ UNCHANGED concurrentVars

\* mutant: the text of the planning pass is sent to the consumer before the
\* streaming pass
PlanChat_emit ==
  /\ mode = "service" /\ s_pc = "created"
  /\ report_requested' = report_requested_of(user_prompt)
  /\ report_format' = report_format_of(user_prompt)
  /\ trace' = Append(trace, "plan")
  /\ planned' = 0
  /\ m_pc' = "chat"
  /\ events' = Append(events,
                      ChunkEvent(MessageChunk("Metformin exports are led by China.")))
  /\ s_pc' = "at_chunk"
  /\ UNCHANGED <<mode, user_prompt, m_scratchpad, m_tool_calls,
                 final_summary_chunks>>
  /\ UNCHANGED <<agentVars, produced, engine_failed, renderer_calls,
                 render_failed, disconnect>>
  /\ UNCHANGED concurrentVars

\* the planning pass requests no capability: the conversational path
PlanChat ==
  /\ mode = "service" /\ s_pc = "created"
  /\ report_requested' = report_requested_of(user_prompt)
  /\ report_format' = report_format_of(user_prompt)
  /\ trace' = Append(trace, "plan")
  /\ planned' = 0
  /\ m_pc' = "chat"
  /\ s_pc' = "iterating"
  /\ UNCHANGED <<mode, user_prompt, m_scratchpad, m_tool_calls,
                 final_summary_chunks, events>>
  /\ UNCHANGED <<agentVars, produced, engine_failed, renderer_calls,
                 render_failed, disconnect>>
  /\ UNCHANGED concurrentVars

\* names the planning pass may request: wrappers, a raw search capability
\* that is registered but not bound, and an unregistered name
PlanNames ==
  {"invoke_exim_trade_agent", "invoke_web_intelligence_agent", "web_search",
   UnknownTool}

\* the planning pass requests capabilities: the task path
PlanTools ==
  /\ mode = "service" /\ s_pc = "created"
  /\ report_requested' = report_requested_of(user_prompt)
  /\ report_format' = report_format_of(user_prompt)
  /\ trace' = Append(trace, "plan")
  /\ \E k \in 1..MaxPlanCalls :
       \E calls \in Requests(PlanNames, 0, k) :
         /\ m_scratchpad' = Append(m_scratchpad, AIMessage("", calls))
         /\ m_tool_calls' = calls
         /\ planned' = k
  /\ m_pc' = "phase2"
  /\ s_pc' = "iterating"
  /\ UNCHANGED <<mode, user_prompt, final_summary_chunks, events>>
  /\ UNCHANGED <<agentVars, produced, engine_failed, renderer_calls,
                 render_failed, disconnect>>
  /\ UNCHANGED concurrentVars

\* what one Phase-2 turn does, for the trace
ExecKind(tool_name) ==
  IF tool_name \in master_tools THEN "invoke_agent"
  ELSE IF tool_name \in tool_executor THEN "invoke_tool"
  ELSE "not_found"

\* mutant: the planned requests are executed last first
ExecToolCall_reversed ==
  /\ mode = "service" /\ m_pc = "phase2" /\ m_tool_calls # << >>
  /\ LET tool_call == m_tool_calls[Len(m_tool_calls)]
     IN /\ \E outcome \in MasterToolOutcomes(tool_call.name) :
             m_scratchpad' = Append(m_scratchpad,
                                    MasterToolMessage(tool_call, outcome))
        /\ trace' = Append(trace, ExecKind(tool_call.name))
  /\ m_tool_calls' = SubSeq(m_tool_calls, 1, Len(m_tool_calls) - 1)
  /\ m_pc' = IF Len(m_tool_calls) = 1 THEN "synth" ELSE "phase2"
  /\ UNCHANGED <<mode, user_prompt, report_requested, report_format,
                 final_summary_chunks, s_pc, events>>
  /\ UNCHANGED <<agentVars, planned, produced, engine_failed, renderer_calls,
                 render_failed, disconnect>>
  /\ UNCHANGED concurrentVars

\* mutant: a request that is not found or raises ends the invocation
ExecToolCall_abort ==
  /\ mode = "service" /\ m_pc = "phase2" /\ m_tool_calls # << >>
  /\ LET tool_call == Head(m_tool_calls)
     IN /\ \E outcome \in MasterToolOutcomes(tool_call.name) :
             IF tool_call.name \notin tool_executor \/ outcome.raised
               THEN /\ RaiseToService("plan")
                    /\ UNCHANGED <<m_scratchpad, m_tool_calls>>
               ELSE /\ m_scratchpad' =
                         Append(m_scratchpad,
                                MasterToolMessage(tool_call, outcome))
                    /\ m_tool_calls' = Tail(m_tool_calls)
                    /\ m_pc' = IF Len(m_tool_calls) = 1 THEN "synth"
                                                        ELSE "phase2"
                    /\ UNCHANGED <<s_pc, events, engine_failed>>
        /\ trace' = Append(trace, ExecKind(tool_call.name))
  /\ UNCHANGED <<mode, user_prompt, report_requested, report_format,
                 final_summary_chunks>>
  /\ UNCHANGED <<agentVars, planned, produced, renderer_calls, render_failed,
                 disconnect>>
  /\ UNCHANGED concurrentVars

\* mutant: a capability already executed in this invocation is not executed
\* again
ExecToolCall_dedup ==
  /\ mode = "service" /\ m_pc = "phase2" /\ m_tool_calls # << >>
  /\ LET tool_call == Head(m_tool_calls)
     IN IF \E j \in 1..Len(m_scratchpad) :
             m_scratchpad[j].type = "tool" /\ m_scratchpad[j].name = tool_call.name
          THEN UNCHANGED <<m_scratchpad, trace>>
          ELSE /\ \E outcome \in MasterToolOutcomes(tool_call.name) :
                    m_scratchpad' = Append(m_scratchpad,
                                           MasterToolMessage(tool_call, outcome))
               /\ trace' = Append(trace, ExecKind(tool_call.name))
  /\ m_tool_calls' = Tail(m_tool_calls)
  /\ m_pc' = IF Len(m_tool_calls) = 1 THEN "synth" ELSE "phase2"
  /\ UNCHANGED <<mode, user_prompt, report_requested, report_format,
                 final_summary_chunks, s_pc, events>>
  /\ UNCHANGED <<agentVars, planned, produced, engine_failed, renderer_calls,
                 render_failed, disconnect>>
  /\ UNCHANGED concurrentVars

\* Phase 2: one turn of the loop over the planned requests
ExecToolCall ==
  /\ mode = "service" /\ m_pc = "phase2" /\ m_tool_calls # << >>
  /\ LET tool_call == Head(m_tool_calls)
     IN /\ \E outcome \in MasterToolOutcomes(tool_call.name) :
             m_scratchpad' = Append(m_scratchpad,
                                    MasterToolMessage(tool_call, outcome))
        /\ trace' = Append(trace, ExecKind(tool_call.name))
  /\ m_tool_calls' = Tail(m_tool_calls)
  /\ m_pc' = IF Len(m_tool_calls) = 1 THEN "synth" ELSE "phase2"
  /\ UNCHANGED <<mode, user_prompt, report_requested, report_format,
                 final_summary_chunks, s_pc, events>>
  /\ UNCHANGED <<agentVars, planned, produced, engine_failed, renderer_calls,
                 render_failed, disconnect>>
  /\ UNCHANGED concurrentVars

\* mutant: the fragment is kept back and the engine is asked for the next one
StreamChunk_buffered ==
  /\ mode = "service" /\ s_pc = "iterating" /\ m_pc \in {"chat", "synth"}
  /\ Len(produced) < MaxChunks
  /\ produced' = Append(produced, Fragment(Len(produced) + 1))
  /\ trace' = Append(trace, "stream")
  /\ UNCHANGED <<mode, masterVars, serviceVars>>
  /\ UNCHANGED <<agentVars, planned, engine_failed, renderer_calls,
                 render_failed, disconnect>>
  /\ UNCHANGED concurrentVars

\* the streaming pass produces a fragment; the dispatcher yields it and the
\* service emits it as a chunk event
StreamChunk ==
  /\ mode = "service" /\ s_pc = "iterating" /\ m_pc \in {"chat", "synth"}
  /\ Len(produced) < MaxChunks
  /\ LET text == Fragment(Len(produced) + 1)
     IN /\ produced' = Append(produced, text)
        /\ events' = Append(events, ChunkEvent(MessageChunk(text)))
  /\ trace' = Append(trace, "stream")
  /\ s_pc' = "at_chunk"
  /\ UNCHANGED <<mode, masterVars>>
  /\ UNCHANGED <<agentVars, planned, engine_failed, renderer_calls,
                 render_failed, disconnect>>
  /\ UNCHANGED concurrentVars

\* the streaming pass raises
StreamFails ==
  /\ mode = "service" /\ s_pc = "iterating" /\ m_pc \in {"chat", "synth"}
  /\ trace' = Append(trace, "stream")
  /\ RaiseToService("stream")
  /\ UNCHANGED <<mode, user_prompt, report_requested, report_format,
                 m_scratchpad, m_tool_calls, final_summary_chunks>>
  /\ UNCHANGED <<agentVars, planned, produced, renderer_calls, render_failed,
                 disconnect>>
  /\ UNCHANGED concurrentVars

\* mutant: the conversational path falls through to Phase 4
ChatEnds_report ==
  /\ mode = "service" /\ s_pc = "iterating" /\ m_pc = "chat"
  /\ trace' = Append(trace, "drained")
  /\ m_pc' = "report"
  /\ UNCHANGED <<mode, user_prompt, report_requested, report_format,
                 m_scratchpad, m_tool_calls, final_summary_chunks, s_pc, events>>
  /\ UNCHANGED <<agentVars, planned, produced, engine_failed, renderer_calls,
                 render_failed, disconnect>>
  /\ UNCHANGED concurrentVars

\* the streaming pass is exhausted on the conversational path: the dispatcher
\* returns and the service emits the done event
ChatEnds ==
  /\ mode = "service" /\ s_pc = "iterating" /\ m_pc = "chat"
  /\ trace' = Append(trace, "drained")
  /\ m_pc' = "finished"
  /\ events' = Append(events, DoneEvent)
  /\ s_pc' = "at_done"
  /\ UNCHANGED <<mode, user_prompt, report_requested, report_format,
                 m_scratchpad, m_tool_calls, final_summary_chunks>>
  /\ UNCHANGED <<agentVars, planned, produced, engine_failed, renderer_calls,
                 render_failed, disconnect>>
  /\ UNCHANGED concurrentVars

\* mutant: after the synthesis stream the dispatcher plans one more agent
SynthEnds_replan ==
  /\ mode = "service" /\ s_pc = "iterating" /\ m_pc = "synth"
  /\ \A i \in 1..Len(trace) : trace[i] # "drained"
  /\ trace' = Append(trace, "drained")
  /\ m_pc' = "phase2"
  /\ m_tool_calls' = <<[name |-> "invoke_exim_trade_agent", id |-> 9]>>
  /\ UNCHANGED <<mode, user_prompt, report_requested, report_format,
                 m_scratchpad, final_summary_chunks, s_pc, events>>
  /\ UNCHANGED <<agentVars, planned, produced, engine_failed, renderer_calls,
                 render_failed, disconnect>>
  /\ UNCHANGED concurrentVars

\* the streaming pass is exhausted on the task path: Phase 4 is next
SynthEnds ==
  /\ mode = "service" /\ s_pc = "iterating" /\ m_pc = "synth"
  /\ trace' = Append(trace, "drained")
  /\ m_pc' = "report"
  /\ UNCHANGED <<mode, user_prompt, report_requested, report_format,
                 m_scratchpad, m_tool_calls, final_summary_chunks, s_pc, events>>
  /\ UNCHANGED <<agentVars, planned, produced, engine_failed, renderer_calls,
                 render_failed, disconnect>>
  /\ UNCHANGED concurrentVars

\* Phase 4 with a report requested, entered when the dispatcher is at pc: the
\* entries are built, the renderer is called (raises: the try block raised
\* instead of returning a dict), and a non-empty confirmation is yielded and
\* emitted as a chunk event
ReportFrom(pc) ==
  /\ mode = "service" /\ s_pc = "iterating" /\ m_pc = pc
  /\ report_requested /\ report_format # None
  /\ \E raises \in BOOLEAN, out \in RenderOutcomes :
       LET report_result == generate_report(report_format, out)
           report_confirmation ==
             IF raises THEN ConfirmationOfException(ExcText)
                       ELSE ConfirmationOf(report_result)
       IN /\ renderer_calls' =
               Append(renderer_calls,
                      [query |-> user_prompt,
                       agent_responses |-> AgentResponsesList(m_scratchpad),
                       summary |-> Join(final_summary_chunks),
                       format |-> report_format])
          /\ render_failed' =
               (raises \/ DictGet(report_result, "status", None) # "success")
          /\ IF report_confirmation # ""
               THEN /\ events' = Append(events,
                                        ChunkEvent(StrChunk(report_confirmation)))
                    /\ m_pc' = "confirm"
                    /\ s_pc' = "at_chunk"
               ELSE /\ events' = Append(events, DoneEvent)
                    /\ m_pc' = "finished"
                    /\ s_pc' = "at_done"
  /\ trace' = Append(trace, "render")
  /\ UNCHANGED <<mode, user_prompt, report_requested, report_format,
                 m_scratchpad, m_tool_calls, final_summary_chunks>>
  /\ UNCHANGED <<agentVars, planned, produced, engine_failed, disconnect>>
  /\ UNCHANGED concurrentVars

\* mutant: Phase 4 sits inside the loop over the synthesis stream
Report_in_loop == ReportFrom("synth")

\* Phase 4 runs after the loop over the synthesis stream
Report == ReportFrom("report")

\* Phase 4 with no report requested: the dispatcher returns
NoReport ==
  /\ mode = "service" /\ s_pc = "iterating" /\ m_pc = "report"
  /\ ~(report_requested /\ report_format # None)
  /\ m_pc' = "finished"
  /\ events' = Append(events, DoneEvent)
  /\ s_pc' = "at_done"
  /\ UNCHANGED <<mode, user_prompt, report_requested, report_format,
                 m_scratchpad, m_tool_calls, final_summary_chunks>>
  /\ UNCHANGED <<agentVars, historyVars>>
  /\ UNCHANGED concurrentVars

\* the consumer asks for the next event after a chunk: the dispatcher resumes
\* after its yield
ResumeAfterChunk ==
  /\ mode = "service" /\ s_pc = "at_chunk"
  /\ \/ /\ m_pc = "synth"
        /\ final_summary_chunks' =
             Append(final_summary_chunks, produced[Len(produced)])
        /\ UNCHANGED <<m_pc, events>>
        /\ s_pc' = "iterating"
     \/ /\ m_pc = "chat"
        /\ UNCHANGED <<m_pc, final_summary_chunks, events>>
        /\ s_pc' = "iterating"
     \/ /\ m_pc = "confirm"
        /\ m_pc' = "finished"
        /\ events' = Append(events, DoneEvent)
        /\ s_pc' = "at_done"
        /\ UNCHANGED final_summary_chunks
  /\ UNCHANGED <<mode, user_prompt, report_requested, report_format,
                 m_scratchpad, m_tool_calls>>
  /\ UNCHANGED <<agentVars, historyVars>>
  /\ UNCHANGED concurrentVars

\* mutant: the except clause returns after its error event
ResumeAfterError_return ==
  /\ mode = "service" /\ s_pc = "at_error"
  /\ events' = events
  /\ s_pc' = "ended"
  /\ UNCHANGED <<mode, masterVars>>
  /\ UNCHANGED <<agentVars, historyVars>>
  /\ UNCHANGED concurrentVars

\* the consumer asks for the next event after the error event: the service
\* falls through to its final done event
ResumeAfterError ==
  /\ mode = "service" /\ s_pc = "at_error"
  /\ events' = Append(events, DoneEvent)
  /\ s_pc' = "at_done"
  /\ UNCHANGED <<mode, masterVars>>
  /\ UNCHANGED <<agentVars, historyVars>>
  /\ UNCHANGED concurrentVars

\* the consumer asks for the next event after the done event: the service
\* generator ends
ResumeAfterDone ==
  /\ mode = "service" /\ s_pc = "at_done"
  /\ s_pc' = "ended"
  /\ UNCHANGED <<mode, masterVars, events>>
  /\ UNCHANGED <<agentVars, historyVars>>
  /\ UNCHANGED concurrentVars

\* the phase the dispatcher is suspended in
PhaseOf(pc) ==
  CASE pc = "created" -> "start"
    [] pc = "chat" -> "chat"
    [] pc = "synth" -> "synthesis"
    [] pc = "confirm" -> "report"
    [] OTHER -> "end"

\* mutant: the disconnect is swallowed and the service keeps iterating
Disconnect_ignored ==
  /\ mode = "service" /\ s_pc \in {"created", "at_chunk", "at_error", "at_done"}
  /\ disconnect.phase = "none"
  /\ s_pc' = IF s_pc = "at_chunk" THEN "iterating" ELSE "closed"
  /\ disconnect' = [phase |-> PhaseOf(m_pc), nevents |-> Len(events)]
  /\ UNCHANGED <<mode, masterVars, events>>
  /\ UNCHANGED <<agentVars, trace, planned, produced, engine_failed,
                 renderer_calls, render_failed>>
  /\ UNCHANGED concurrentVars

\* the consumer goes away: close() raises GeneratorExit at the yield the
\* service is suspended at; the service returns and the dispatcher generator,
\* never resumed, is closed with it
Disconnect ==
  /\ mode = "service" /\ s_pc \in {"created", "at_chunk", "at_error", "at_done"}
  /\ s_pc' = "closed"
  /\ m_pc' = IF m_pc \in {"finished", "raised"} THEN m_pc ELSE "closed"
  /\ disconnect' = [phase |-> PhaseOf(m_pc), nevents |-> Len(events)]
  /\ UNCHANGED <<mode, user_prompt, report_requested, report_format,
                 m_scratchpad, m_tool_calls, final_summary_chunks, events>>
  /\ UNCHANGED <<agentVars, trace, planned, produced, engine_failed,
                 renderer_calls, render_failed>>
  /\ UNCHANGED concurrentVars

\* the response is over; the generators' locals are dropped
ServiceDone ==
  /\ mode = "service" /\ s_pc \in {"ended", "closed"}
  /\ mode' = "idle"
  /\ ServiceReset
  /\ UNCHANGED agentVars
  /\ UNCHANGED concurrentVars

Next ==
  \/ AgentInvoke
  \/ AgentReasonFails
  \/ AgentReasonFinal
  \/ AgentReasonCalls
  \/ AgentToolCall
  \/ AgentExhausted
  \/ AgentDone
  \/ ServiceRequest
  \/ PlanFails
  \/ PlanChat
  \/ PlanTools
  \/ ExecToolCall
  \/ StreamChunk
  \/ StreamFails
  \/ ChatEnds
  \/ SynthEnds
  \/ Report
  \/ NoReport
  \/ ResumeAfterChunk
  \/ ResumeAfterError
  \/ ResumeAfterDone
  \/ Disconnect
  \/ ServiceDone

Spec == Init /\ [][Next]_vars

(***************************************************************************)
(* Report generations of concurrent requests: every request thread calls   *)
(* generate_report on the one module-level renderer, which writes into the *)
(* one reports directory.                                                  *)
(***************************************************************************)
\* datetime.now().strftime("%Y%m%d_%H%M%S"): what is below a second is dropped
strftime(t) ==
  LET sec == t \div TicksPerSecond
  IN "20240101_1200" \o (IF sec < 10 THEN "0" ELSE "") \o ToString(sec)

\* filepath of generate_pdf_report
pdf_filepath(t) ==
  "reports/pharma_innovation_report_" \o strftime(t) \o ".pdf"

\* filepath of generate_excel_report
excel_filepath(t) ==
  "reports/pharma_innovation_data_" \o strftime(t) \o ".xlsx"

\* a file is written: one already at that path is replaced
WriteFile(dir, path, writer) ==
  {f \in dir : f[1] # path} \cup {<<path, writer>>}

otherThanReports ==
  <<mode, agentVars, masterVars, serviceVars, historyVars, frameVars,
    gatewayVars, chatVars, wrapperVars, chartVars>>

\* time passes
Tick ==
  /\ now < MaxClock
  /\ now' = now + 1
  /\ UNCHANGED <<renders, reports_dir, otherThanReports>>

\* generate_report(query, agent_responses, summary, format) is entered
RenderCall(i) ==
  /\ renders[i].pc = "idle"
  /\ \E format \in {"pdf", "excel", "both"} :
       renders' = [renders EXCEPT ![i] =
                     [NoRender EXCEPT !.format = format,
                                      !.pc = IF format = "excel"
                                               THEN "excel_start"
                                               ELSE "pdf_start"]]
  /\ UNCHANGED <<now, reports_dir, otherThanReports>>

\* generate_pdf_report reads the clock and derives its filepath
RenderPdfName(i) ==
  /\ renders[i].pc = "pdf_start"
  /\ renders' = [renders EXCEPT ![i].pdf = pdf_filepath(now),
                                ![i].pc = "pdf_build"]
  /\ UNCHANGED <<now, reports_dir, otherThanReports>>

\* doc.build(elements) writes the file, or the routine raises and
\* generate_report returns its error dict
RenderPdfBuild(i) ==
  /\ renders[i].pc = "pdf_build"
  /\ \E ok \in BOOLEAN :
       IF ok
         THEN /\ reports_dir' = WriteFile(reports_dir, renders[i].pdf, i)
              /\ renders' =
                   [renders EXCEPT
                      ![i].written = renders[i].written \cup {"pdf"},
                      ![i].pc = IF renders[i].format = "both"
                                  THEN "excel_start" ELSE "returned"]
         ELSE /\ reports_dir' = reports_dir
              /\ renders' = [renders EXCEPT ![i].pc = "returned"]
  /\ UNCHANGED <<now, otherThanReports>>

\* generate_excel_report reads the clock and derives its filepath
RenderExcelName(i) ==
  /\ renders[i].pc = "excel_start"
  /\ renders' = [renders EXCEPT ![i].excel = excel_filepath(now),
                                ![i].pc = "excel_write"]
  /\ UNCHANGED <<now, reports_dir, otherThanReports>>

\* the ExcelWriter block writes the file, or the routine raises
RenderExcelWrite(i) ==
  /\ renders[i].pc = "excel_write"
  /\ \E ok \in BOOLEAN :
       IF ok
         THEN /\ reports_dir' = WriteFile(reports_dir, renders[i].excel, i)
              /\ renders' =
                   [renders EXCEPT
                      ![i].written = renders[i].written \cup {"excel"},
                      ![i].pc = "returned"]
         ELSE /\ reports_dir' = reports_dir
              /\ renders' = [renders EXCEPT ![i].pc = "returned"]
  /\ UNCHANGED <<now, otherThanReports>>

NextReports ==
  \/ Tick
  \/ \E i \in Slots : RenderCall(i)
  \/ \E i \in Slots : RenderPdfName(i)
  \/ \E i \in Slots : RenderPdfBuild(i)
  \/ \E i \in Slots : RenderExcelName(i)
  \/ \E i \in Slots : RenderExcelWrite(i)

SpecReports == Init /\ [][NextReports]_vars

(***************************************************************************)
(* Interleaved invocations: request threads call invoke on the same        *)
(* module-level executors; every call of invoke works on its own locals.   *)
(***************************************************************************)
\* mutant: the locals are kept on the executor, one frame for all calls
FrameOf_shared(i) == 1

\* the frame of locals the i-th call of invoke works on: its own
FrameOf(i) == i

\* the executors whose invocations are interleaved
InterleavedExecutors == {"exim_agent", "web_agent", "master_agent"}

\* the capability the engine asks an agent for
InterleavedTool(a) == CHOOSE n \in AgentTools(a) : TRUE

\* what that capability answers: a text that is no error text, or it raises
InterleavedOutcomes(tool_name) ==
  {o \in ToolOutcomes(tool_name) : o.raised \/ o.text # ErrorText}

\* names the planning pass asks for
InterleavedPlanNames == {"invoke_exim_trade_agent", "web_search"}

otherThanFrames ==
  <<mode, agentVars, masterVars, serviceVars, historyVars, reportVars,
    gatewayVars, chatVars, wrapperVars, chartVars>>

\* entry of invoke: the locals are initialised
IInvoke(i) ==
  /\ invocations[i].pc = "idle"
  /\ \E e \in InterleavedExecutors :
       invocations' = [invocations EXCEPT ![i] =
                         [NoInvocation EXCEPT !.executor = e, !.pc = "reason"]]
  /\ frames' = [frames EXCEPT ![FrameOf(i)] = NoFrame]
  /\ UNCHANGED otherThanFrames

\* an agent's reasoning pass raises
IReasonFails(i) ==
  LET e == invocations[i].executor
      f == frames[FrameOf(i)]
  IN /\ invocations[i].pc = "reason" /\ e \in Agents
     /\ f.count < max_iterations(e)
     /\ invocations' =
          [invocations EXCEPT
             ![i].pc = "raised",
             ![i].responses = Append(invocations[i].responses, ScriptFail)]
     /\ UNCHANGED <<frames, otherThanFrames>>

\* an agent's reasoning pass requests no capability: CASE 1
IReasonFinal(i) ==
  LET e == invocations[i].executor
      f == frames[FrameOf(i)]
  IN /\ invocations[i].pc = "reason" /\ e \in Agents
     /\ f.count < max_iterations(e)
     /\ \E content \in Contents :
          invocations' =
            [invocations EXCEPT
               ![i].pc = "returned",
               ![i].responses =
                  Append(invocations[i].responses, ScriptFinal(content)),
               ![i].result = FinalResult(e, content, f.raw_data_json)]
     /\ UNCHANGED <<frames, otherThanFrames>>

\* an agent's reasoning pass requests one capability: CASE 2
IReasonCalls(i) ==
  LET e == invocations[i].executor
      f == frames[FrameOf(i)]
  IN /\ invocations[i].pc = "reason" /\ e \in Agents
     /\ f.count < max_iterations(e)
     /\ \E calls \in Requests({InterleavedTool(e)}, invocations[i].issued, 1) :
          frames' =
            [frames EXCEPT
               ![FrameOf(i)].agent_scratchpad =
                  Append(f.agent_scratchpad, AIMessage("", calls)),
               ![FrameOf(i)].tool_calls = calls]
     /\ invocations' = [invocations EXCEPT
                          ![i].pc = "tool",
                          ![i].issued = invocations[i].issued + 1]
     /\ UNCHANGED otherThanFrames

\* the for-loop processes the request; count is incremented
IToolCall(i) ==
  LET e == invocations[i].executor
      f == frames[FrameOf(i)]
  IN /\ invocations[i].pc = "tool" /\ f.tool_calls # << >>
     /\ LET tool_call == Head(f.tool_calls)
        IN \E outcome \in InterleavedOutcomes(tool_call.name) :
             /\ frames' =
                  [frames EXCEPT
                     ![FrameOf(i)].raw_data_json =
                        RawDataAfter(e, tool_call.name, tool_call.id, outcome,
                                     f.raw_data_json),
                     ![FrameOf(i)].agent_scratchpad =
                        Append(f.agent_scratchpad,
                               ToolMessage(ResultStr(e, tool_call.name, outcome),
                                           tool_call.id, "", PlainStr(""))),
                     ![FrameOf(i)].tool_calls = Tail(f.tool_calls),
                     ![FrameOf(i)].count = f.count + 1]
             /\ invocations' =
                  [invocations EXCEPT
                     ![i].pc = "reason",
                     ![i].responses =
                        Append(invocations[i].responses,
                               ScriptCall(tool_call.name, outcome))]
     /\ UNCHANGED otherThanFrames

\* an agent's while condition fails: the iteration-exhaustion return
IExhausted(i) ==
  LET e == invocations[i].executor
      f == frames[FrameOf(i)]
  IN /\ invocations[i].pc = "reason" /\ e \in Agents
     /\ f.count >= max_iterations(e)
     /\ invocations' =
          [invocations EXCEPT
             ![i].pc = "returned",
             ![i].result = ExhaustedResult(e, f.raw_data_json)]
     /\ UNCHANGED <<frames, otherThanFrames>>

\* the dispatcher's planning pass requests capabilities
IPlan(i) ==
  LET f == frames[FrameOf(i)]
  IN /\ invocations[i].pc = "reason"
     /\ invocations[i].executor = "master_agent"
     /\ \E k \in 1..MaxPlanCalls :
          \E calls \in Requests(InterleavedPlanNames, 0, k) :
            /\ frames' =
                 [frames EXCEPT
                    ![FrameOf(i)].agent_scratchpad =
                       Append(f.agent_scratchpad, AIMessage("", calls)),
                    ![FrameOf(i)].tool_calls = calls]
            /\ invocations' = [invocations EXCEPT ![i].pc = "phase2",
                                                  ![i].plan = calls]
     /\ UNCHANGED otherThanFrames

\* Phase 2: one planned request is executed and its result retained; after
\* the last one the retained results are what Phase 4 reads
IExec(i) ==
  LET f == frames[FrameOf(i)]
  IN /\ invocations[i].pc = "phase2" /\ f.tool_calls # << >>
     /\ LET tool_call == Head(f.tool_calls)
        IN \E outcome \in MasterToolOutcomes(tool_call.name) :
             LET scratchpad ==
                   Append(f.agent_scratchpad,
                          MasterToolMessage(tool_call, outcome))
             IN /\ frames' =
                     [frames EXCEPT
                        ![FrameOf(i)].agent_scratchpad = scratchpad,
                        ![FrameOf(i)].tool_calls = Tail(f.tool_calls)]
                /\ invocations' =
                     [invocations EXCEPT
                        ![i].responses =
                           Append(invocations[i].responses, outcome),
                        ![i].pc = IF Len(f.tool_calls) = 1
                                    THEN "returned" ELSE "phase2",
                        ![i].retained =
                           IF Len(f.tool_calls) = 1
                             THEN AgentResponsesList(scratchpad) ELSE << >>]
     /\ UNCHANGED otherThanFrames

NextInterleaved ==
  \/ \E i \in Slots : IInvoke(i)
  \/ \E i \in Slots : IReasonFails(i)
  \/ \E i \in Slots : IReasonFinal(i)
  \/ \E i \in Slots : IReasonCalls(i)
  \/ \E i \in Slots : IToolCall(i)
  \/ \E i \in Slots : IExhausted(i)
  \/ \E i \in Slots : IPlan(i)
  \/ \E i \in Slots : IExec(i)

SpecInterleaved == Init /\ [][NextInterleaved]_vars

(***************************************************************************)
(* The Data Gateway serving lookups over dataset.json, which is read from  *)
(* disk by every request and may be replaced between requests.             *)
(***************************************************************************)
otherThanGateway ==
  <<mode, agentVars, masterVars, serviceVars, historyVars, reportVars,
    frameVars, chatVars, wrapperVars, chartVars>>

\* dataset.json is replaced on disk
DatasetReplaced ==
  /\ \E file \in Datasets \ {dataset} : dataset' = file
  /\ UNCHANGED <<gw_request, gw_response, otherThanGateway>>

\* the key parameters a lookup is requested with: none, empty, a key of the
\* dataset as it is and in another case, an unknown key
GatewayParams(key, recased) ==
  {NoParam, Param(""), Param(key), Param(recased), Param("xyz")}

\* a view answers a request
Answer(endpoint, param, response) ==
  /\ gw_request' = [endpoint |-> endpoint, param |-> param]
  /\ gw_response' = response
  /\ UNCHANGED <<dataset, otherThanGateway>>

IqviaRequest ==
  \E param \in GatewayParams("respiratory", "Respiratory") :
    Answer("iqvia", param, iqvia_api(param, dataset))

ClinicalTrialsRequest ==
  \E param \in GatewayParams("metformin", "Metformin") :
    Answer("clinical-trials", param, clinical_trials_api(param, dataset))

EximTradeRequest ==
  \E param \in GatewayParams("metformin", "Metformin") :
    Answer("exim-trade", param, exim_trade_api(param, dataset))

PatentLandscapeRequest ==
  \E param \in GatewayParams("metformin", "Metformin") :
    Answer("patents", param, patent_landscape_api(param, dataset))

KnowledgeBaseRequest ==
  \E param \in GatewayParams("STRAT-2024-001", "strat-2024-001") :
    Answer("knowledge-base", param,
           internal_knowledge_base_api(param, dataset))

PatentAnalysisRequest ==
  \E param \in GatewayParams("metformin", "Metformin") :
    Answer("patent-analysis", param, patent_analysis_api(param, dataset))

NextGateway ==
  \/ DatasetReplaced
  \/ IqviaRequest
  \/ ClinicalTrialsRequest
  \/ EximTradeRequest
  \/ PatentLandscapeRequest
  \/ KnowledgeBaseRequest
  \/ PatentAnalysisRequest

SpecGateway == Init /\ [][NextGateway]_vars

(***************************************************************************)
(* The non-streaming chat endpoint answering POST requests: it runs the    *)
(* streaming service to its end and answers with one JSON document.        *)
(***************************************************************************)
otherThanChat ==
  <<mode, agentVars, masterVars, serviceVars, historyVars, reportVars,
    frameVars, gatewayVars, wrapperVars, chartVars>>

\* fragments the streaming pass may produce: empty, plain, with a newline,
\* with quotes, with a backslash, with a U+2028
ChatFragments ==
  {<< >>,
   <<"Metformin exports are led by China.">>,
   <<"Exports:", Newline, "- India">>,
   <<"The ", Quote, "EXIM", Quote, " agent reported.">>,
   <<"C:", Backslash, "reports">>,
   <<"Exports rose.", LineSeparator, "Imports fell.">>}

\* the confirmation fragment of Phase 4, when there is one
ChatConfirmations ==
  {<<Newline, Newline, "**Report File:**", Newline,
     "reports/pharma_innovation_report_20240101_120000.pdf">>}

\* sequences of at most n fragments
FragmentSeqs(n) == UNION {[1..k -> ChatFragments] : k \in 0..n}

\* the view answers a request
ChatAnswer(body, run) ==
  /\ chat_request' = [body |-> body, run |-> run]
  /\ chat_response' = chat_agent(body, run)
  /\ UNCHANGED otherThanChat

\* the body is not JSON or holds no query
ChatBadRequest ==
  \E body \in Bodies \ {"query"} : ChatAnswer(body, NoRun)

\* the dispatcher streams its fragments and returns
ChatStreamEnds ==
  \E fragments \in FragmentSeqs(MaxChunks) :
    ChatAnswer("query", [payloads |-> fragments, failure |-> None])

\* the dispatcher streams its fragments, then the confirmation, and returns
ChatStreamEndsWithReport ==
  \E fragments \in FragmentSeqs(MaxChunks), c \in ChatConfirmations :
    ChatAnswer("query", [payloads |-> Append(fragments, c), failure |-> None])

\* the reasoning engine raises after some fragments
ChatStreamFails ==
  \E fragments \in FragmentSeqs(MaxChunks) :
    ChatAnswer("query", [payloads |-> fragments, failure |-> <<ExcText>>])

NextChat ==
  \/ ChatBadRequest
  \/ ChatStreamEnds
  \/ ChatStreamEndsWithReport
  \/ ChatStreamFails

SpecChat == Init /\ [][NextChat]_vars

(***************************************************************************)
(* The six wrapper capabilities, each called with the registry as it is:   *)
(* get_agent hands the wrapper its executor, or None.                      *)
(***************************************************************************)
otherThanWrappers ==
  <<mode, agentVars, masterVars, serviceVars, historyVars, reportVars,
    frameVars, gatewayVars, chatVars, chartVars>>

\* what get_agent(agent_name) may return
get_agent(agent_name) == {agent_name, None}

\* a wrapper is called and returns
WrapperCall(name, agent, script, return) ==
  /\ w_call' = [name |-> name, agent |-> agent, script |-> script]
  /\ w_return' = return
  /\ UNCHANGED otherThanWrappers

\* the courses of one call: no executor, or an executor and a script
Courses(agent_name) ==
  UNION {IF g = None THEN {<<None, << >> >>}
                     ELSE {<<g, s>> : s \in AllScripts(g)} :
         g \in get_agent(agent_name)}

\* the calls of each wrapper: every course, with what the wrapper returns in it
EximTradeRuns ==
  {<<c, invoke_exim_trade_agent(c[1], c[2])>> :
     c \in Courses("exim_agent")}

IqviaRuns ==
  {<<c, iqvia_insights(c[1], c[2])>> :
     c \in Courses("iqvia_agent")}

PatentLandscapeRuns ==
  {<<c, invoke_patent_landscape_agent(c[1], c[2])>> :
     c \in Courses("patent_agent")}

ClinicalTrialsRuns ==
  {<<c, invoke_clinical_trials_agent(c[1], c[2])>> :
     c \in Courses("clinical_trials_agent")}

InternalKnowledgeRuns ==
  {<<c, invoke_internal_knowledge_agent(c[1], c[2])>> :
     c \in Courses("internal_agent")}

WebIntelligenceRuns ==
  {<<c, invoke_web_intelligence_agent(c[1], c[2])>> :
     c \in Courses("web_agent")}

EximTradeCall ==
  \E r \in EximTradeRuns :
    WrapperCall("invoke_exim_trade_agent", r[1][1], r[1][2], r[2])

IqviaCall ==
  \E r \in IqviaRuns :
    WrapperCall("iqvia_insights", r[1][1], r[1][2], r[2])

PatentLandscapeCall ==
  \E r \in PatentLandscapeRuns :
    WrapperCall("invoke_patent_landscape_agent", r[1][1], r[1][2], r[2])

ClinicalTrialsCall ==
  \E r \in ClinicalTrialsRuns :
    WrapperCall("invoke_clinical_trials_agent", r[1][1], r[1][2], r[2])

InternalKnowledgeCall ==
  \E r \in InternalKnowledgeRuns :
    WrapperCall("invoke_internal_knowledge_agent", r[1][1], r[1][2], r[2])

WebIntelligenceCall ==
  \E r \in WebIntelligenceRuns :
    WrapperCall("invoke_web_intelligence_agent", r[1][1], r[1][2], r[2])

NextWrappers ==
  \/ EximTradeCall
  \/ IqviaCall
  \/ PatentLandscapeCall
  \/ ClinicalTrialsCall
  \/ InternalKnowledgeCall
  \/ WebIntelligenceCall

SpecWrappers == Init /\ [][NextWrappers]_vars

(***************************************************************************)
(* generate_pdf_report calls running interleaved on one temporary chart    *)
(* directory: each draws its charts into reports/temp, builds its document *)
(* from them and then cleans the directory.                                *)
(***************************************************************************)
otherThanCharts ==
  <<mode, agentVars, masterVars, serviceVars, historyVars, reportVars,
    frameVars, gatewayVars, chatVars, wrapperVars>>

\* datetime.now().strftime("%Y%m%d_%H%M%S_%f"): the microseconds are kept
strftime_f(t) ==
  "20240101_120000_" \o (IF t < 10 THEN "00000" ELSE "0000") \o ToString(t)

\* the file of chart_path: f'chart_{timestamp}.png' in the temporary directory
chart_file(t) == [stem |-> "chart_", stamp |-> strftime_f(t), ext |-> ".png"]

\* file.startswith('chart_')
StartsWithChart(file) == file.stem = "chart_"

\* os.listdir(temp_dir)
listdir(dir) == {f[1] : f \in dir}

\* generate_pdf_report(query, agent_responses, summary) is entered; charts is
\* the number of its sections _extract_numeric_data finds numbers in
PdfCall(i) ==
  /\ pdfs[i].pc = "idle"
  /\ \E charts \in 0..MaxCharts :
       pdfs' = [pdfs EXCEPT ![i] = [NoPdf EXCEPT !.pc = "elements",
                                                 !.charts = charts]]
  /\ UNCHANGED <<chart_clock, temp_dir, otherThanCharts>>

\* _create_chart_from_data reads the clock and derives chart_path
ChartPath(i) ==
  /\ pdfs[i].pc = "elements"
  /\ pdfs[i].charts > 0
  /\ pdfs' = [pdfs EXCEPT ![i].chart_path = chart_file(chart_clock),
                          ![i].pc = "savefig"]
  /\ UNCHANGED <<chart_clock, temp_dir, otherThanCharts>>

\* plt.savefig(chart_path) writes the file, which takes more than a
\* microsecond, and Image(chart_path) joins the elements without reading it
ChartSave(i) ==
  /\ pdfs[i].pc = "savefig"
  /\ temp_dir' = WriteFile(temp_dir, pdfs[i].chart_path, i)
  /\ chart_clock' = chart_clock + 1
  /\ pdfs' = [pdfs EXCEPT
                ![i].images = Append(pdfs[i].images, pdfs[i].chart_path),
                ![i].charts = pdfs[i].charts - 1,
                ![i].chart_path = None,
                ![i].pc = "elements"]
  /\ UNCHANGED otherThanCharts

\* doc.build(elements) reads the file of every image; a file that is not
\* there makes it raise, and the exception leaves generate_pdf_report
PdfBuild(i) ==
  /\ pdfs[i].pc = "elements"
  /\ pdfs[i].charts = 0
  /\ LET images == pdfs[i].images
         there(k) == images[k] \in listdir(temp_dir)
     IN IF \A k \in 1..Len(images) : there(k)
          THEN pdfs' =
                 [pdfs EXCEPT
                    ![i].read =
                       [k \in 1..Len(images) |->
                          (CHOOSE f \in temp_dir : f[1] = images[k])[2]],
                    ![i].pc = "cleanup"]
          ELSE pdfs' = [pdfs EXCEPT ![i].pc = "raised"]
  /\ UNCHANGED <<chart_clock, temp_dir, otherThanCharts>>

\* the cleanup lists the temporary directory
PdfListDir(i) ==
  /\ pdfs[i].pc = "cleanup"
  /\ pdfs' = [pdfs EXCEPT ![i].listing = listdir(temp_dir),
                          ![i].pc = "remove"]
  /\ UNCHANGED <<chart_clock, temp_dir, otherThanCharts>>

\* one round of the cleanup loop, in the order os.listdir gave: a chart file
\* is removed; os.remove of a file that is gone raises, and the bare except
\* ends the cleanup
PdfRemove(i) ==
  /\ pdfs[i].pc = "remove"
  /\ \E file \in pdfs[i].listing :
       IF ~StartsWithChart(file)
         THEN /\ temp_dir' = temp_dir
              /\ pdfs' = [pdfs EXCEPT ![i].listing = pdfs[i].listing \ {file}]
         ELSE IF file \in listdir(temp_dir)
           THEN /\ temp_dir' = {f \in temp_dir : f[1] # file}
                /\ pdfs' = [pdfs EXCEPT
                              ![i].listing = pdfs[i].listing \ {file}]
           ELSE /\ temp_dir' = temp_dir
                /\ pdfs' = [pdfs EXCEPT ![i].listing = {},
                                        ![i].pc = "returned"]
  /\ UNCHANGED <<chart_clock, otherThanCharts>>

\* the cleanup loop is over and filepath is returned
PdfReturn(i) ==
  /\ pdfs[i].pc = "remove"
  /\ pdfs[i].listing = {}
  /\ pdfs' = [pdfs EXCEPT ![i].pc = "returned"]
  /\ UNCHANGED <<chart_clock, temp_dir, otherThanCharts>>

NextCharts ==
  \/ \E i \in Slots : PdfCall(i)
  \/ \E i \in Slots : ChartPath(i)
  \/ \E i \in Slots : ChartSave(i)
  \/ \E i \in Slots : PdfBuild(i)
  \/ \E i \in Slots : PdfListDir(i)
  \/ \E i \in Slots : PdfRemove(i)
  \/ \E i \in Slots : PdfReturn(i)

SpecCharts == Init /\ [][NextCharts]_vars

(***************************************************************************)
(* Properties of the specialized agents.                                   *)
(***************************************************************************)
\* invoke has returned a result
Returned == mode = "agent" /\ a_pc = "returned"

\* invoke has returned because the while condition failed
Exhausted == Returned /\ count >= max_iterations(self)

\* the capability-result turns of the scratchpad
ToolTurns(scratchpad) == SelectSeq(scratchpad, LAMBDA m : m.type = "tool")

\* the reasoning turns of the scratchpad
AITurns(scratchpad) == SelectSeq(scratchpad, LAMBDA m : m.type = "ai")

\* raw_data derived from the text of one capability result: the parsed JSON,
\* or the text wrapped as {error: text}
DerivedRaw(text) ==
  IF JsonLoads(text).ok THEN JsonLoads(text).value ELSE {<<"error", text>>}

\* C1: every result a specialized agent's invoke returns has a non-empty
\* analysis string.  Refuted: a reasoning pass with no capability request and
\* empty content is returned as it is.
C1_AnalysisNonEmpty == Returned => a_result.analysis # ""

WebKey(o) ==
  o.name
    \o (IF o.name \in {"web_search", "pubmed_search"} /\ ~o.outcome.raised
          THEN "_result_" ELSE "_error_")
    \o ToString(o.id)

C3_ExactlyNPasses ==
  LET N == IF self = "web_agent" THEN 3 ELSE 2
  IN mode = "agent" =>
       /\ passes <= N
       /\ (Returned /\ Len(AITurns(agent_scratchpad)) = passes) =>
            /\ passes = N
            /\ a_result.analysis = MaxIterMessage(self)

\* C3 witness: the web agent returned after three passes that all requested a
\* capability
C3_Witness ==
  /\ Returned /\ self = "web_agent"
  /\ passes = 3 /\ Len(AITurns(agent_scratchpad)) = 3

\* s is a prefix of t
IsPrefix(s, t) == Len(s) <= Len(t) /\ SubSeq(t, 1, Len(s)) = s

\* every capability-result turn answers a request of the most recent
\* reasoning turn before it
IdsMatch(scratchpad) ==
  \A j \in 1..Len(scratchpad) :
    scratchpad[j].type = "tool" =>
      \E i \in 1..(j - 1) :
        /\ scratchpad[i].type = "ai"
        /\ \A k \in (i + 1)..(j - 1) : scratchpad[k].type = "tool"
        /\ \E r \in 1..Len(scratchpad[i].tool_calls) :
             scratchpad[i].tool_calls[r].id = scratchpad[j].tool_call_id

\* C4: within one invocation of a specialized agent or of the dispatcher every
\* step extends the scratchpad (the old scratchpad is a prefix of the new
\* one), and every capability-result turn carries the identifier of a request
\* of the most recent preceding reasoning turn.
C4_ScratchpadAppendOnly ==
  [][/\ (mode = "agent" /\ mode' = "agent") =>
          IsPrefix(agent_scratchpad, agent_scratchpad')
     /\ (mode = "service" /\ mode' = "service") =>
          IsPrefix(m_scratchpad, m_scratchpad')
     /\ IdsMatch(agent_scratchpad')
     /\ IdsMatch(m_scratchpad')]_vars

\* C4 witness: an agent's scratchpad with two reasoning turns, the second one
\* with two requests that both have been answered
C4_Witness ==
  /\ mode = "agent" /\ a_pc = "while"
  /\ Len(AITurns(agent_scratchpad)) = 2
  /\ Len(AITurns(agent_scratchpad)[2].tool_calls) = 2
  /\ Len(ToolTurns(agent_scratchpad)) >= 3

(***************************************************************************)
(* Properties of the Master Dispatcher and the streaming service.          *)
(***************************************************************************)
\* the phase an operation of the dispatcher belongs to
Rank(op) ==
  CASE op = "plan" -> 1
    [] op \in {"invoke_agent", "invoke_tool", "not_found"} -> 2
    [] op = "stream" -> 3
    [] op = "drained" -> 4
    [] OTHER -> 5

Occurrences(op) == Cardinality({i \in 1..Len(trace) : trace[i] = op})

\* C5: the operations of one dispatcher invocation occur in phase order:
\* the planning pass, then the Phase-2 executions, then the fragments of the
\* streaming pass, then its exhaustion, then the renderer call; the planning
\* pass, the exhaustion and the renderer call occur at most once, and the
\* renderer is called only after the stream is exhausted.
C5_PhaseOrder ==
  /\ \A i, j \in 1..Len(trace) : i < j => Rank(trace[i]) <= Rank(trace[j])
  /\ trace # << >> => trace[1] = "plan"
  /\ Occurrences("plan") <= 1
  /\ Occurrences("drained") <= 1
  /\ Occurrences("render") <= 1
  /\ Occurrences("render") = 1 => Occurrences("drained") = 1

\* C5 witness: a run that went through all four phases
C5_Witness ==
  /\ Occurrences("invoke_agent") >= 1
  /\ Occurrences("stream") >= 2
  /\ Occurrences("render") = 1
  /\ s_pc = "ended"

\* C6: when the planning pass requested no capability, no specialized agent
\* and no capability is invoked during the invocation and the dispatcher's
\* scratchpad stays empty.
C6_ChatInvokesNothing ==
  planned = 0 =>
    /\ Occurrences("invoke_agent") = 0
    /\ Occurrences("invoke_tool") = 0
    /\ Occurrences("not_found") = 0
    /\ m_scratchpad = << >>

\* C6 witness: a conversational run with a task-like query was served to the
\* end
C6_Witness ==
  /\ planned = 0 /\ s_pc = "ended" /\ Len(produced) >= 1
  /\ user_prompt = <<"trade", "trends">>

\* the words of the queries that contain each cue, whatever their case
HasReportCue == \E i \in 1..Len(user_prompt) :
                  user_prompt[i] \in {"Report", "REPORT", "reports"}

HasPdfCue == \E i \in 1..Len(user_prompt) : user_prompt[i] \in {"PDF", "pdf"}

HasExcelCue == \E i \in 1..Len(user_prompt) :
                 user_prompt[i] \in {"Excel", "EXCEL", "excel"}

\* the dispatcher has run its setup
SetupDone == mode = "service" /\ trace # << >>

ErrorEvents == {i \in 1..Len(events) : events[i].type = "error"}

\* C8: once the reasoning engine has failed in the planning pass or in the
\* streaming pass, the failing pass is the dispatcher's last operation, the
\* renderer is never called, and the consumer's events hold exactly one error
\* event, followed by nothing but the closing done event.
C8_EngineFailureIsOneError ==
  engine_failed # "no" =>
    /\ m_pc = "raised"
    /\ trace[Len(trace)] = engine_failed
    /\ renderer_calls = << >>
    /\ Cardinality(ErrorEvents) = 1
    /\ \A i \in ErrorEvents :
         \A j \in (i + 1)..Len(events) : events[j].type = "done"

\* C8 witness: the synthesis stream failed after a fragment had been delivered
\* and the response was served to its end
C8_Witness ==
  /\ engine_failed = "stream" /\ planned >= 1 /\ Len(produced) >= 1
  /\ s_pc = "ended"

\* the confirmation fragments that report a failed report generation
FailureFragments ==
  {"\n\n**Report Generation Failed:**\nError generating report: Connection refused",
   "\n\n**Report Generation Failed:**\nConnection refused"}

\* C9: when report generation failed (status error or an exception), nothing
\* is raised out of the dispatcher, no error event is emitted, the synthesis
\* fragments delivered before are still the first events, unchanged and in
\* order, and the next event is a chunk with the failure text.
C9_ReportFailureIsText ==
  render_failed =>
    /\ m_pc \in {"confirm", "finished", "closed"}
    /\ ErrorEvents = {}
    /\ Len(events) > Len(produced)
    /\ \A i \in 1..Len(produced) :
         events[i] = [type |-> "chunk", payload |-> produced[i]]
    /\ events[Len(produced) + 1].type = "chunk"
    /\ events[Len(produced) + 1].payload \in FailureFragments

\* C9 witness: a run whose report generation failed after two synthesis
\* fragments was served to its end
C9_Witness == render_failed /\ Len(produced) = 2 /\ s_pc = "ended"

\* C10: after the consumer closed the stream during synthesis, no event is
\* added, the renderer is never called, no error event is emitted and both
\* generators are closed.
C10_DisconnectSkipsReport ==
  disconnect.phase = "synthesis" =>
    /\ s_pc = "closed" /\ m_pc = "closed"
    /\ Len(events) = disconnect.nevents
    /\ renderer_calls = << >>
    /\ Occurrences("render") = 0
    /\ ErrorEvents = {}

\* C10 witness: the consumer closed the stream after a synthesis fragment of
\* a run whose query asked for a report
C10_Witness ==
  /\ disconnect.phase = "synthesis"
  /\ report_requested /\ report_format # None
  /\ Len(produced) >= 1

(***************************************************************************)
(* Properties of Phase 4 and of the event stream.                          *)
(***************************************************************************)
\* the texts that name every file a successful generation of a format wrote
PathTexts(format) ==
  CASE format = "pdf" -> {PdfPath}
    [] format = "excel" -> {ExcelPath}
    [] OTHER -> {PdfPath \o sep \o ExcelPath : sep \in {", ", "\n", " and "}}

\* C12: once Phase 4 has called the renderer, the event after the synthesis
\* fragments is the one confirmation chunk, only the done event follows it,
\* and it carries the path(s) of the generated file(s) when the renderer
\* succeeded (for pdf, excel and both) and the failure message otherwise.
\* Refuted by a successful generation of format both.
C12_ConfirmationCarriesPath ==
  renderer_calls # << >> =>
    LET k == Len(produced) + 1
    IN /\ Len(events) >= k
       /\ events[k].type = "chunk"
       /\ \A j \in (k + 1)..Len(events) : events[j].type = "done"
       /\ IF render_failed
            THEN events[k].payload \in FailureFragments
            ELSE events[k].payload \in
                   {"\n\n**Report File:**\n" \o p :
                      p \in PathTexts(renderer_calls[1].format)}

\* the query holds one of the cues that ask for a report
QueryAsksReport == HasReportCue \/ HasPdfCue \/ HasExcelCue

\* the response was served to its end without an engine failure
ServedToEnd == mode = "service" /\ s_pc = "ended" /\ engine_failed = "no"

\* C13 as stated: in every invocation served to its end the renderer is called
\* exactly once when the query asks for a report and never when it does not.
\* Refuted by the conversational path.
C13_RenderedIffRequested ==
  ServedToEnd =>
    IF QueryAsksReport THEN Len(renderer_calls) = 1
                       ELSE renderer_calls = << >>

\* C13 amended: the renderer is called at most once, only on the task path
\* after the synthesis stream is exhausted, only when the query asks for a
\* report and with the format computed at the start; on the task path every
\* invocation served to its end whose query asks for a report calls it
\* exactly once; on the conversational path it is never called.
C13_ReportConsumedOnce ==
  /\ Len(renderer_calls) <= 1
  /\ renderer_calls # << >> =>
       /\ QueryAsksReport
       /\ planned >= 1
       /\ Occurrences("drained") = 1
       /\ renderer_calls[1].format = report_format
       /\ renderer_calls[1].query = user_prompt
  /\ (ServedToEnd /\ planned >= 1 /\ QueryAsksReport) =>
       Len(renderer_calls) = 1
  /\ (SetupDone /\ planned = 0) => renderer_calls = << >>
  /\ (SetupDone /\ ~QueryAsksReport) => renderer_calls = << >>

\* C13 witness: a task-path run whose only cue is "PDF" was served to its end
\* with its report rendered
C13_Witness ==
  /\ ServedToEnd /\ planned >= 1
  /\ user_prompt = <<"PDF">>
  /\ Len(renderer_calls) = 1

ExecOps == {"invoke_agent", "invoke_tool", "not_found"}

\* C14: in one dispatcher invocation the planning pass runs exactly once and
\* first, Phase 2 executes no more than the planned requests, the fragments
\* of the streaming pass form one block that is exhausted at most once, no
\* planning pass and no Phase-2 execution follows a fragment or the
\* exhaustion, and nothing follows a failed pass (no retry).
C14_DecisionOnce ==
  /\ SetupDone => (trace[1] = "plan" /\ Occurrences("plan") = 1)
  /\ Cardinality({i \in 1..Len(trace) : trace[i] \in ExecOps})
       <= (IF planned < 0 THEN 0 ELSE planned)
  /\ Occurrences("drained") <= 1
  /\ \A i, j \in 1..Len(trace) :
       (i < j /\ trace[i] \in {"stream", "drained"}) =>
          trace[j] \notin ExecOps \cup {"plan"}
  /\ \A i, j \in 1..Len(trace) :
       (i < j /\ trace[i] = "drained") => trace[j] # "stream"
  /\ engine_failed # "no" => trace[Len(trace)] = engine_failed

\* C14 witness: a run with two Phase-2 executions and an exhausted synthesis
\* stream was served to its end
C14_Witness ==
  /\ ServedToEnd /\ planned = 2
  /\ Occurrences("invoke_agent") >= 1
  /\ Occurrences("stream") >= 1 /\ Occurrences("drained") = 1

ChunkEvents == {i \in 1..Len(events) : events[i].type = "chunk"}

DoneEvents == {i \in 1..Len(events) : events[i].type = "done"}

\* C15: every response served to its end holds at least one chunk event or
\* exactly one error event.  Refuted by a streaming pass that produces no
\* fragment.
C15_NeverSilentlyEmpty ==
  (mode = "service" /\ s_pc = "ended") =>
    (ChunkEvents # {} \/ Cardinality(ErrorEvents) = 1)

\* C17: no event follows a done event, so there is at most one, and every
\* response served to its end (normally, after a failed planning pass, or
\* after a failure in the middle of the stream) ends with the done event.
C17_DoneIsLast ==
  /\ \A i \in DoneEvents : i = Len(events)
  /\ (mode = "service" /\ s_pc = "ended") =>
       (events # << >> /\ events[Len(events)].type = "done")

\* C17 witness: a response whose planning pass failed was served to its end
C17_Witness ==
  /\ mode = "service" /\ s_pc = "ended" /\ engine_failed = "plan"
  /\ Len(events) = 2

(***************************************************************************)
(* Properties of one specialized agent's loop.                             *)
(***************************************************************************)
\* invoke has returned from CASE 1: its last reasoning pass requested nothing
FinalReturn == Returned /\ passes = Len(AITurns(agent_scratchpad)) + 1

\* what the parse of a capability's text gives: the gateway body parses to
\* its object, any other text is wrapped
ParsedOrError(text) ==
  IF text = "{\"molecule_name\": \"metformin\"}"
    THEN {<<"molecule_name", "metformin">>}
    ELSE {<<"error", text>>}

\* the last capability-result turn of the scratchpad
LastToolContent == ToolTurns(agent_scratchpad)[Len(observed)].content

\* the web agent's accumulation: one entry per processed call
WebAccumulation ==
  {<<WebKey(observed[i]), ToolTurns(agent_scratchpad)[i].content>> :
     i \in 1..Len(observed)}

ToolStep ==
  /\ mode = "agent" /\ mode' = "agent"
  /\ Len(observed') = Len(observed) + 1

\* the request was for a registered capability and the capability returned
Succeeded(o) == o.name \in AgentTools(self) /\ ~o.outcome.raised

\* the step appends one capability-result turn with this text and the loop
\* goes on
AppendsTurn(text) ==
  /\ Len(agent_scratchpad') = Len(agent_scratchpad) + 1
  /\ IsPrefix(agent_scratchpad, agent_scratchpad')
  /\ agent_scratchpad'[Len(agent_scratchpad')].type = "tool"
  /\ agent_scratchpad'[Len(agent_scratchpad')].content = text
  /\ a_pc' \in {"for", "while"}

FailureText(o) ==
  IF o.name \in AgentTools(self)
    THEN "Error executing tool " \o o.name \o ": " \o o.outcome.text
    ELSE "Error: Tool '" \o o.name \o "' not found."

\* a reasoning pass starts with every processed result in the scratchpad
PassSeesResults ==
  (mode = "agent" /\ mode' = "agent" /\ passes' = passes + 1) =>
     Len(ToolTurns(agent_scratchpad)) = Len(observed)

C11_ReportPathsUnique ==
  /\ \A i, j \in Slots :
       i # j =>
         /\ (renders[i].pdf # "" /\ renders[j].pdf # "") =>
               renders[i].pdf # renders[j].pdf
         /\ (renders[i].excel # "" /\ renders[j].excel # "") =>
               renders[i].excel # renders[j].excel
  /\ \A i \in Slots :
       /\ "pdf" \in renders[i].written => <<renders[i].pdf, i>> \in reports_dir
       /\ "excel" \in renders[i].written =>
             <<renders[i].excel, i>> \in reports_dir

(***************************************************************************)
(* Properties of interleaved invocations.                                  *)
(***************************************************************************)
\* the requests an agent's invocation has had answered, in order
AnsweredCalls(i) ==
  LET calls == SelectSeq(invocations[i].responses,
                         LAMBDA r : ~r.fails /\ r.calls # << >>)
  IN [k \in 1..Len(calls) |-> calls[k].calls[1]]

\* the scratchpad of an agent's invocation run alone against its responses
AloneScratchpad(i) ==
  LET e == invocations[i].executor
      calls == AnsweredCalls(i)
  IN [n \in 1..(2 * Len(calls)) |->
        LET k == (n + 1) \div 2
        IN IF n % 2 = 1
             THEN AIMessage("", <<[name |-> calls[k].name, id |-> k]>>)
             ELSE ToolMessage(ResultStr(e, calls[k].name, calls[k].outcome),
                              k, "", PlainStr(""))]

\* the dispatcher's scratchpad run alone against its plan and its results
AloneMasterScratchpad(i) ==
  <<AIMessage("", invocations[i].plan)>>
    \o [k \in 1..Len(invocations[i].responses) |->
          MasterToolMessage(invocations[i].plan[k], invocations[i].responses[k])]

AgentNotFound ==
  {i \in 1..Len(observed) : observed[i].name \notin AgentTools(self)}

\* the turns the dispatcher appended for names it has no executor for
MasterNotFound ==
  {j \in 1..Len(m_scratchpad) :
     m_scratchpad[j].type = "tool" /\ m_scratchpad[j].name \notin tool_executor}

\* C21: a request for an unregistered capability name is answered with a
\* text that depends on the name only: two such requests for the same name,
\* in an agent or in the dispatcher, in one pass or in different passes, get
\* the same text, "Error: Tool '<name>' not found.".
C21_NotFoundDeterministic ==
  /\ mode = "agent" =>
       /\ Len(ToolTurns(agent_scratchpad)) = Len(observed)
       /\ \A i, j \in AgentNotFound :
            observed[i].name = observed[j].name =>
              ToolTurns(agent_scratchpad)[i].content
                = ToolTurns(agent_scratchpad)[j].content
       /\ \A i \in AgentNotFound :
            ToolTurns(agent_scratchpad)[i].content
              = "Error: Tool '" \o observed[i].name \o "' not found."
  /\ \A i, j \in MasterNotFound :
       m_scratchpad[i].name = m_scratchpad[j].name =>
         m_scratchpad[i].content = m_scratchpad[j].content
  /\ \A j \in MasterNotFound :
       m_scratchpad[j].content
         = "Error: Tool '" \o m_scratchpad[j].name \o "' not found."

\* C21 witness: an agent was asked for the same unregistered name in two
\* different passes, with a registered capability's result in between
C21_Witness ==
  /\ mode = "agent" /\ passes >= 2 /\ Len(observed) = 3
  /\ observed[1].name = UnknownTool
  /\ observed[2].name \in AgentTools(self)
  /\ observed[3].name = UnknownTool
  /\ Len(AITurns(agent_scratchpad)) >= 2

\* the requests of the planning turn
PlannedCalls == m_scratchpad[1].tool_calls

\* C22: Phase 2 answers the requests of the planning turn one at a time and
\* in request order: the scratchpad is the planning turn followed by one
\* capability-result turn per request answered so far, each with the name and
\* the call identifier of its request, and the streaming pass starts only
\* when every request is answered.
C22_PhaseTwoInOrder ==
  (mode = "service" /\ planned >= 1) =>
    LET answered == planned - Len(m_tool_calls)
    IN /\ m_scratchpad[1].type = "ai"
       /\ Len(PlannedCalls) = planned
       /\ Len(m_scratchpad) = 1 + answered
       /\ \A k \in 1..answered :
            /\ m_scratchpad[1 + k].type = "tool"
            /\ m_scratchpad[1 + k].tool_call_id = PlannedCalls[k].id
            /\ m_scratchpad[1 + k].name = PlannedCalls[k].name
       /\ m_tool_calls = SubSeq(PlannedCalls, answered + 1, planned)
       /\ (m_pc = "synth" \/ Occurrences("stream") > 0) => answered = planned

\* C22 witness: synthesis is about to start after two requests for different
\* capabilities
C22_Witness ==
  /\ mode = "service" /\ m_pc = "synth" /\ s_pc = "iterating"
  /\ planned = 2 /\ produced = << >>
  /\ PlannedCalls[1].name = "web_search"
  /\ PlannedCalls[2].name = "invoke_exim_trade_agent"
  /\ Len(m_scratchpad) = 3

\* the turn reports a capability that was not found or that raised
ErrorTurn(t) ==
  \/ t.content = "Error: Tool '" \o t.name \o "' not found."
  \/ t.content = "Error executing tool " \o t.name \o ": " \o ExcText

\* every request of the planning turn was answered with an error
OnlyErrors ==
  /\ planned >= 1
  /\ Len(ToolTurns(m_scratchpad)) = planned
  /\ \A i \in 1..planned : ErrorTurn(ToolTurns(m_scratchpad)[i])

\* C23: a Phase-2 step never ends the invocation, whatever its capability
\* does: it appends one capability-result turn, emits no event, raises
\* nothing to the service, and when the last request is answered the
\* dispatcher is at the synthesis pass, error turns or not.
C23_ErrorsDoNotAbort ==
  [][(mode = "service" /\ m_pc = "phase2") =>
       /\ m_pc' \in {"phase2", "synth"}
       /\ s_pc' = "iterating"
       /\ events' = events
       /\ engine_failed' = "no"
       /\ Len(ToolTurns(m_scratchpad')) = Len(ToolTurns(m_scratchpad)) + 1
       /\ m_pc' = "synth" <=> Len(ToolTurns(m_scratchpad')) = planned]_vars

\* C23 witness: both requests failed, one not found and one raising, and the
\* synthesis stream was delivered and the response served to its end
C23_Witness ==
  /\ mode = "service" /\ s_pc = "ended" /\ OnlyErrors /\ planned = 2
  /\ Occurrences("not_found") = 1
  /\ Occurrences("invoke_agent") = 1
  /\ Len(produced) = 2 /\ Occurrences("drained") = 1
  /\ Cardinality(ChunkEvents) >= 2

\* how many elements of the sequence carry this name
NameCount(seq, n) == Cardinality({i \in 1..Len(seq) : seq[i].name = n})

\* C24: when Phase 2 is over, every capability name has as many
\* capability-result turns as the planning turn has requests for it, every
\* request for a specialized agent was an invocation of its own, every turn
\* retains its result, and the renderer gets one entry per request.
C24_NoDeduplication ==
  (mode = "service" /\ planned >= 1 /\ m_tool_calls = << >>) =>
    LET turns == ToolTurns(m_scratchpad)
    IN /\ \A i \in 1..Len(PlannedCalls) :
            NameCount(turns, PlannedCalls[i].name)
              = NameCount(PlannedCalls, PlannedCalls[i].name)
       /\ Occurrences("invoke_agent")
            = Cardinality({i \in 1..Len(PlannedCalls) :
                             PlannedCalls[i].name \in master_tools})
       /\ \A i \in 1..Len(turns) : turns[i].full_json_for_reporting.is_json
       /\ \A c \in 1..Len(renderer_calls) :
            Len(renderer_calls[c].agent_responses) = planned

\* C24 witness: the same agent was requested twice, the two invocations gave
\* different results, and the renderer got both
C24_Witness ==
  /\ mode = "service" /\ planned = 2
  /\ PlannedCalls[1].name = "invoke_exim_trade_agent"
  /\ PlannedCalls[2].name = "invoke_exim_trade_agent"
  /\ Occurrences("invoke_agent") = 2
  /\ Len(renderer_calls) = 1
  /\ Len(renderer_calls[1].agent_responses) = 2
  /\ renderer_calls[1].agent_responses[1].analysis
       # renderer_calls[1].agent_responses[2].analysis

\* C25: the content of every capability-result turn of the dispatcher is the
\* analysis of the result retained with that turn, the retained result is a
\* JSON object, and the entries handed to the renderer are one per
\* capability-result turn, in order, each with the content of its turn as
\* analysis and with the retained raw_data.
C25_TurnIsAnalysis ==
  LET turns == ToolTurns(m_scratchpad)
  IN /\ \A i \in 1..Len(turns) :
          /\ turns[i].full_json_for_reporting.is_json
          /\ turns[i].full_json_for_reporting.obj.analysis = turns[i].content
     /\ \A c \in 1..Len(renderer_calls) :
          LET entries == renderer_calls[c].agent_responses
          IN /\ Len(entries) = Len(turns)
             /\ \A i \in 1..Len(entries) :
                  /\ entries[i].analysis = turns[i].content
                  /\ entries[i].raw_data
                       = turns[i].full_json_for_reporting.obj.raw_data

\* C25 witness: the renderer got the entries of an agent's JSON result and of
\* a search capability's plain text
C25_Witness ==
  /\ Len(renderer_calls) = 1 /\ planned = 2
  /\ ToolTurns(m_scratchpad)[1].name = "invoke_exim_trade_agent"
  /\ ToolTurns(m_scratchpad)[1].content = "Metformin exports are led by China."
  /\ ToolTurns(m_scratchpad)[2].name = "web_search"
  /\ ToolTurns(m_scratchpad)[2].content = WebText
  /\ renderer_calls[1].agent_responses[2].raw_data
       = {<<"error", "String output, not JSON">>}

RECURSIVE PayloadsText(_)
\* the payloads of a sequence of events, one after the other
PayloadsText(evs) ==
  IF evs = << >> THEN ""
  ELSE PayloadsText(SubSeq(evs, 1, Len(evs) - 1)) \o evs[Len(evs)].payload

\* C26: when the renderer is called, the events delivered so far are the
\* chunk events of the synthesis fragments, the summary it gets is their
\* payloads one after the other, and the query it gets is the user's query.
C26_SummaryIsForwardedText ==
  [][Len(renderer_calls') = Len(renderer_calls) + 1 =>
       LET call == renderer_calls'[Len(renderer_calls')]
       IN /\ \A i \in 1..Len(events) : events[i].type = "chunk"
          /\ call.summary = PayloadsText(events)
          /\ call.query = user_prompt
          /\ user_prompt' = user_prompt]_vars

\* C26 witness: the renderer got the two fragments of the synthesis stream
C26_Witness ==
  /\ Len(renderer_calls) = 1
  /\ renderer_calls[1].summary = "fragment 1. fragment 2. "
  /\ renderer_calls[1].query = <<"Report", "pdf", "Excel">>
  /\ Cardinality(ChunkEvents) >= 2

\* C27: on the task path every fragment the streaming pass has produced has
\* been delivered, in production order, before anything else happens: the
\* k-th event is the chunk event of the k-th fragment; and the engine is
\* asked for a further fragment only when the consumer asked for the next
\* event.
C27_ForwardedAsProduced ==
  (mode = "service" /\ planned >= 1) =>
    /\ Len(events) >= Len(produced)
    /\ \A k \in 1..Len(produced) :
         events[k] = [type |-> "chunk", payload |-> produced[k]]
    /\ IsPrefix(final_summary_chunks, produced)
    /\ s_pc = "iterating" => final_summary_chunks = produced

\* C27 witness: the second fragment of a synthesis stream has just been
\* delivered
C27_Witness ==
  /\ mode = "service" /\ m_pc = "synth" /\ s_pc = "at_chunk"
  /\ Len(produced) = 2 /\ Len(events) = 2
  /\ events[2].payload = "fragment 2. "

\* C28: on the conversational path the engine runs the planning pass once
\* and then one streaming pass, the scratchpad is empty, the chunk events
\* are those of the fragments of the streaming pass in order, and the text of
\* the planning pass is not among them.
C28_ChatStreamsSecondPass ==
  (mode = "service" /\ planned = 0) =>
    /\ trace[1] = "plan" /\ Occurrences("plan") = 1
    /\ \A i \in 2..Len(trace) : trace[i] \in {"stream", "drained"}
    /\ \A i \in 1..Len(trace) : trace[i] = "drained" => i = Len(trace)
    /\ m_scratchpad = << >>
    /\ ChunkEvents = 1..Len(produced)
    /\ \A k \in 1..Len(produced) : events[k].payload = produced[k]
    /\ \A k \in ChunkEvents : events[k].payload \notin Contents
    /\ renderer_calls = << >>

\* C28 witness: a conversational response of two fragments was served to its
\* end
C28_Witness ==
  /\ mode = "service" /\ planned = 0 /\ s_pc = "ended"
  /\ Len(produced) = 2 /\ Len(events) = 3
  /\ Occurrences("drained") = 1

(***************************************************************************)
(* Properties of the Data Gateway and of the path from it to an agent.     *)
(***************************************************************************)
\* the gateway's answer to the trade lookup of a molecule it does not hold
UnknownMolecule == exim_trade_api(Param("xyz"), DatasetOk)

\* the capability results of a data agent that are the adapter's text for
\* that answer
NotFoundResults ==
  {i \in 1..Len(observed) :
     /\ observed[i].name \in AgentTools(self)
     /\ ~observed[i].outcome.raised
     /\ observed[i].outcome.text = get_exim_trade_data("xyz", DatasetOk)}

\* the gateway's error text and its list of keys inside the adapter's text
NotFoundPayload ==
  "API Error: 404 - {\"error\": \"" \o UnknownMolecule.error
    \o "\", \"available_molecules\": [\"metformin\", \"semaglutide\"]}"

\* C29: the gateway answers the lookup of an unknown molecule with status
\* 404, an error text and the list of the molecules it holds; the turn a data
\* agent records for that capability result holds the error text and the
\* list, and right after that result raw_data is {error: <that text>}.
C29_NotFoundReachesAgent ==
  /\ UnknownMolecule.status = 404
  /\ UnknownMolecule.error = "Molecule 'xyz' not found in trade data."
  /\ UnknownMolecule.list_name = "available_molecules"
  /\ UnknownMolecule.available = <<"metformin", "semaglutide">>
  /\ (mode = "agent" /\ self \in DataAgents) =>
       \A i \in NotFoundResults :
         /\ ToolTurns(agent_scratchpad)[i].content = NotFoundPayload
         /\ (i = Len(observed) /\ a_pc # "returned") =>
              raw_data_json = {<<"error", NotFoundPayload>>}

\* C29 witness: the EXIM agent has just recorded the not-found answer
C29_Witness ==
  /\ mode = "agent" /\ self = "exim_agent" /\ a_pc = "while"
  /\ Len(observed) = 1 /\ NotFoundResults = {1}
  /\ raw_data_json = {<<"error", NotFoundPayload>>}

\* the lookups and, for each, the section it reads, the name of the list in
\* its 404 body and the name field of its 200 body
Endpoints ==
  {"iqvia", "clinical-trials", "exim-trade", "patents", "knowledge-base",
   "patent-analysis"}

SectionOf(endpoint) ==
  CASE endpoint = "iqvia" -> "market_intelligence_iqvia"
    [] endpoint = "clinical-trials" -> "clinical_trials"
    [] endpoint = "exim-trade" -> "exim_trade_data"
    [] endpoint = "patents" -> "patent_landscape"
    [] endpoint = "knowledge-base" -> "internal_knowledge_base"
    [] OTHER -> "patent_analysis"

ListNameOf(endpoint) ==
  CASE endpoint = "iqvia" -> "available_areas"
    [] endpoint = "knowledge-base" -> "available_document_ids"
    [] OTHER -> "available_molecules"

BodyFieldOf(endpoint) ==
  CASE endpoint = "iqvia" -> "therapy_area"
    [] endpoint = "knowledge-base" -> "synthetic_pdf_url"
    [] OTHER -> "molecule_name"

\* the valid keys of a lookup over a dataset: document ids exist only for
\* entries that are objects
ValidKeys(endpoint, file) ==
  IF file.file # "json" \/ SectionOf(endpoint) \notin file.sections THEN << >>
  ELSE IF endpoint = "iqvia" THEN <<"respiratory", "oncology">>
  ELSE IF endpoint = "knowledge-base"
    THEN IF file.entries = "object" THEN <<"STRAT-2024-001", "FIELD-2024-Q3">>
                                    ELSE << >>
  ELSE <<"metformin", "semaglutide">>

\* the key parameter is missing or empty
KeyMissing(request) == ~request.param.present \/ request.param.value = ""

\* the key as the lookup matches it: document ids as given, the other keys
\* lower-cased
MatchedKey(request) ==
  IF request.endpoint = "knowledge-base" THEN request.param.value
  ELSE IF request.param.value = "Metformin" THEN "metformin"
  ELSE IF request.param.value = "Respiratory" THEN "respiratory"
  ELSE request.param.value

Recognized(request, file) ==
  InList(MatchedKey(request), ValidKeys(request.endpoint, file))

\* the 404 answer lists every valid key
ListsValidKeys(request, response, file) ==
  /\ response.status = 404 /\ response.error # ""
  /\ response.list_name = ListNameOf(request.endpoint)
  /\ response.available = ValidKeys(request.endpoint, file)

\* the 200 answer has the body of its domain
DomainBody(request, response) ==
  /\ response.status = 200 /\ response.error = ""
  /\ \E f \in response.data : f[1] = BodyFieldOf(request.endpoint)

\* a step in which a lookup is answered
LookupStep == gw_request' # gw_request \/ gw_response' # gw_response

\* C30 as stated: a lookup changes nothing of the dataset and answers 400
\* without its key, 500 when the dataset cannot be loaded, 404 with the list
\* of valid keys for a key that is not one of them, and 200 with the domain
\* body otherwise.  Refuted by a dataset that loads but lacks the section the
\* lookup reads, and by one whose entry for the key is null: both get 500.
C30_GatewayAnswers ==
  [][LookupStep =>
       /\ dataset' = dataset
       /\ gw_request'.endpoint \in Endpoints
       /\ IF KeyMissing(gw_request')
            THEN gw_response'.status = 400 /\ gw_response'.error # ""
          ELSE IF dataset.file # "json"
            THEN gw_response'.status = 500 /\ gw_response'.error # ""
          ELSE IF ~Recognized(gw_request', dataset)
            THEN ListsValidKeys(gw_request', gw_response', dataset)
          ELSE DomainBody(gw_request', gw_response')]_vars

\* C30 amended: as above, and a dataset that loads but lacks the section of
\* the lookup, or whose entry for a recognized key of the five name-keyed
\* lookups is not an object, is answered with 500.
C30_GatewayAnswersStructure ==
  [][LookupStep =>
       /\ dataset' = dataset
       /\ gw_request'.endpoint \in Endpoints
       /\ IF KeyMissing(gw_request')
            THEN /\ gw_response'.status = 400 /\ gw_response'.error # ""
                 /\ gw_response'.usage_example # ""
          ELSE IF dataset.file # "json"
                    \/ SectionOf(gw_request'.endpoint) \notin dataset.sections
            THEN gw_response'.status = 500 /\ gw_response'.error # ""
          ELSE IF ~Recognized(gw_request', dataset)
            THEN ListsValidKeys(gw_request', gw_response', dataset)
          ELSE IF gw_request'.endpoint # "knowledge-base"
                    /\ dataset.entries # "object"
            THEN gw_response'.status = 500 /\ gw_response'.error # ""
          ELSE DomainBody(gw_request', gw_response')]_vars

\* C30 witness: over the complete dataset the trade lookup answered an
\* unknown molecule with 404 and the two molecules it holds
C30_Witness ==
  /\ dataset = DatasetOk
  /\ gw_request = [endpoint |-> "exim-trade", param |-> Param("xyz")]
  /\ gw_response.status = 404
  /\ gw_response.available = <<"metformin", "semaglutide">>

(***************************************************************************)
(* Properties of the non-streaming chat endpoint.                          *)
(***************************************************************************)
RECURSIVE Concatenation(_)
\* the payloads of a run, one after the other
Concatenation(payloads) ==
  IF payloads = << >> THEN << >>
  ELSE Head(payloads) \o Concatenation(Tail(payloads))

\* C31: for a request with a query, the non-streaming endpoint answers
\* status 200 with {response: the in-order concatenation of all chunk
\* payloads} when the stream holds no error event, and status 500 with the
\* text of the error event, and none of the chunks before it, when it does.
C31_ChatCollectsStream ==
  chat_request.body = "query" =>
    IF chat_request.run.failure = None
      THEN /\ chat_response.status = 200
           /\ chat_response.key = "response"
           /\ chat_response.text = Concatenation(chat_request.run.payloads)
      ELSE /\ chat_response.status = 500
           /\ chat_response.key = "error"
           /\ chat_response.text
                = <<"Streaming error: ">> \o chat_request.run.failure

(***************************************************************************)
(* Properties of the wrapper capabilities.                                 *)
(***************************************************************************)
\* C32: whatever a wrapper capability is called with (no executor in the
\* registry, invoke returning, invoke raising), it does not raise and the
\* str it returns is a JSON object with an analysis and a raw_data field.
C32_WrappersReturnJson ==
  w_call.name # None =>
    /\ ~w_return.raised
    /\ w_return.value.is_json
    /\ {"analysis", "raw_data"} \subseteq DOMAIN w_return.value.obj

(***************************************************************************)
(* Properties of the dispatcher's registry and of its phases.              *)
(***************************************************************************)
\* the six wrapper capabilities the planning pass is bound to
BoundNames ==
  {"iqvia_insights", "invoke_web_intelligence_agent",
   "invoke_exim_trade_agent", "invoke_patent_landscape_agent",
   "invoke_clinical_trials_agent", "invoke_internal_knowledge_agent"}

\* the raw search capabilities
SearchNames == {"web_search", "pubmed_search"}

\* what Phase 2 did for each request answered so far, in order
ExecTrace == SelectSeq(trace, LAMBDA op : op \in ExecOps)

\* the turn and the record of a request that took the tool-not-found path
TookNotFoundPath(turn, op) ==
  /\ op = "not_found"
  /\ turn.content = "Error: Tool '" \o turn.name \o "' not found."
  /\ turn.full_json_for_reporting.is_json
  /\ turn.full_json_for_reporting.obj
       = [analysis |-> "Error: Tool '" \o turn.name \o "' not found.",
          raw_data |-> {<<"error", "Tool not found">>}]

\* C33 as stated: Phase 2 executes the six wrappers bound to the planning
\* pass and nothing else: a request for any other name, a raw search
\* capability included, takes the tool-not-found path and no capability runs
\* for it.  Refuted by a planning pass that requests web_search.
C33_OnlyBoundNamesExecute ==
  mode = "service" =>
    LET turns == ToolTurns(m_scratchpad)
    IN /\ Len(ExecTrace) = Len(turns)
       /\ \A i \in 1..Len(turns) :
            IF turns[i].name \in BoundNames
              THEN ExecTrace[i] = "invoke_agent"
              ELSE TookNotFoundPath(turns[i], ExecTrace[i])

\* C33 amended: Phase 2 executes the names of the dispatcher's registry,
\* which are the six wrappers bound to the planning pass and the two raw
\* search capabilities web_search and pubmed_search: a request for a wrapper
\* runs its agent, a request for a raw search capability runs it and its
\* text (or the text of its failure) is the turn, and a request for any
\* other name takes the tool-not-found path and no capability runs for it.
C33_RegistryNamesExecute ==
  mode = "service" =>
    LET turns == ToolTurns(m_scratchpad)
    IN /\ Len(ExecTrace) = Len(turns)
       /\ \A i \in 1..Len(turns) :
            IF turns[i].name \in BoundNames
              THEN /\ ExecTrace[i] = "invoke_agent"
                   /\ ~TookNotFoundPath(turns[i], "not_found")
            ELSE IF turns[i].name \in SearchNames
              THEN /\ ExecTrace[i] = "invoke_tool"
                   /\ turns[i].content
                        \in {"Semaglutide news: obesity trial results published.",
                             "Error executing tool " \o turns[i].name
                               \o ": Connection refused"}
              ELSE TookNotFoundPath(turns[i], ExecTrace[i])

\* C33 witness: a raw search capability ran and returned its text, and a
\* name outside the registry took the tool-not-found path
C33_Witness ==
  /\ mode = "service" /\ m_pc = "synth" /\ planned = 2
  /\ ToolTurns(m_scratchpad)[1].name = "web_search"
  /\ ToolTurns(m_scratchpad)[1].content
       = "Semaglutide news: obesity trial results published."
  /\ ToolTurns(m_scratchpad)[2].name = "generate_report"
  /\ TookNotFoundPath(ToolTurns(m_scratchpad)[2], ExecTrace[2])

\* the texts a confirmation fragment starts with
ConfirmationTexts ==
  {"\n\n**Report File:**\nreports/pharma_innovation_report_20240101_120000.pdf",
   "\n\n**Report File:**\nreports/pharma_innovation_data_20240101_120000.xlsx",
   "\n\n**Report File:**\nFailed to get path",
   "\n\n**Report Generation Failed:**\nError generating report: Connection refused",
   "\n\n**Report Generation Failed:**\nConnection refused"}

\* C35: on the conversational path (the planning pass requested no
\* capability) the report renderer is never called and no confirmation
\* fragment is emitted, whatever cues the query holds: the dispatcher never
\* reaches Phase 4 and every chunk event is a fragment of the streaming pass.
C35_ChatNeverRenders ==
  (mode = "service" /\ planned = 0) =>
    /\ renderer_calls = << >>
    /\ Occurrences("render") = 0
    /\ m_pc \notin {"report", "confirm"}
    /\ \A k \in ChunkEvents : events[k].payload \notin ConfirmationTexts
    /\ Cardinality(ChunkEvents) = Len(produced)

\* C35 witness: a conversational response to a query holding all three cues
\* was served to its end
C35_Witness ==
  /\ mode = "service" /\ planned = 0 /\ s_pc = "ended" /\ m_pc = "finished"
  /\ user_prompt = <<"Report", "pdf", "Excel">>
  /\ report_requested /\ report_format = "both"
  /\ Len(produced) >= 1

\* the agent name a wrapper puts in the error result of a failed invoke
LabelOf(name) ==
  CASE name = "invoke_exim_trade_agent" -> "EXIM Trends Agent"
    [] name = "iqvia_insights" -> "IQVIA Insights Agent"
    [] name = "invoke_patent_landscape_agent" -> "Patent Landscape Agent"
    [] name = "invoke_clinical_trials_agent" -> "Clinical Trials Agent"
    [] name = "invoke_internal_knowledge_agent" -> "Internal Knowledge Agent"
    [] name = "invoke_web_intelligence_agent" -> "Web Intelligence Agent"

\* the turn of a wrapper whose agent's reasoning engine failed during invoke
EngineFailureTurn(turn) ==
  /\ turn.name \in BoundNames
  /\ turn.content
       = "Error during " \o LabelOf(turn.name) \o " invocation: Connection refused"

\* the analyses a specialized agent returns when its engine does not fail
AgentAnalyses ==
  {"Metformin exports are led by China.",
   "Error: EXIM Trade Agent reached max iterations.",
   "Error: Web Intelligence Agent reached max iterations."}

\* C36: a reasoning-engine failure inside a specialized agent during Phase 2
\* does not abort the dispatcher: the wrapper returns an error result
\* {analysis: "Error during <agent> invocation: <e>", raw_data: {error: <e>}},
\* which is one capability-result turn like the result of an invoke that
\* returned; nothing is raised to the service in Phase 2, the remaining
\* requests are answered and the synthesis pass runs after the last one.
C36_AgentEngineFailureContained ==
  (mode = "service" /\ planned >= 1) =>
    LET turns == ToolTurns(m_scratchpad)
    IN /\ \A i \in 1..Len(turns) :
            turns[i].name \in BoundNames =>
              LET full == turns[i].full_json_for_reporting
              IN /\ full.is_json
                 /\ full.obj.analysis = turns[i].content
                 /\ \/ /\ EngineFailureTurn(turns[i])
                       /\ full.obj.raw_data = {<<"error", "Connection refused">>}
                    \/ /\ turns[i].content
                            = "Error executing tool " \o turns[i].name
                                \o ": Connection refused"
                       /\ full.obj.raw_data = {<<"error", "Connection refused">>}
                    \/ turns[i].content \in AgentAnalyses
       /\ Len(turns) + Len(m_tool_calls) = planned
       /\ m_pc = "phase2" => (engine_failed = "no" /\ m_tool_calls # << >>)
       /\ Occurrences("stream") >= 1 => Len(turns) = planned
       /\ engine_failed # "no" =>
            (engine_failed = "stream" /\ Len(turns) = planned)

\* C36 witness: the engine of the first requested agent failed, the second
\* request was answered after it, and the synthesis stream was served to the
\* end
C36_Witness ==
  /\ mode = "service" /\ planned = 2 /\ s_pc = "ended" /\ m_pc = "finished"
  /\ EngineFailureTurn(ToolTurns(m_scratchpad)[1])
  /\ ToolTurns(m_scratchpad)[1].name = "invoke_exim_trade_agent"
  /\ ToolTurns(m_scratchpad)[2].content = "Metformin exports are led by China."
  /\ engine_failed = "no"
  /\ Len(produced) >= 1 /\ Occurrences("drained") = 1

(***************************************************************************)
(* What the reasoning engine of a specialized agent gets to see.           *)
(***************************************************************************)
\* the iteration bound of an executor
BoundOf(a) == IF a = "web_agent" THEN 3 ELSE 2

\* the rounds of capability calls whose requests are in the scratchpad
Rounds(scratchpad) == Len(AITurns(scratchpad))

\* C37: every submission to the reasoning engine holds the complete results
\* of the rounds of capability calls made so far, which are at most N-1
\* rounds; when invoke returns by exhaustion the scratchpad holds N rounds
\* and ends with the capability-result turns of the N-th, N submissions were
\* made and none of them held the results of the N-th round.
C37_LastRoundNeverSubmitted ==
  [][/\ (mode = "agent" /\ mode' = "agent" /\ passes' # passes) =>
          /\ passes' = passes + 1
          /\ a_pc = "while"
          /\ Rounds(agent_scratchpad) = passes
          /\ Rounds(agent_scratchpad) <= BoundOf(self) - 1
          /\ Len(ToolTurns(agent_scratchpad)) = Len(observed)
     /\ (mode' = "agent" /\ a_pc' = "while") =>
          passes' = Rounds(agent_scratchpad')
     /\ (mode' = "agent" /\ a_pc' = "returned" /\ count' >= BoundOf(self')) =>
          /\ Rounds(agent_scratchpad') = BoundOf(self')
          /\ passes' = BoundOf(self')
          /\ agent_scratchpad'[Len(agent_scratchpad')].type = "tool"
          /\ Len(ToolTurns(agent_scratchpad')) = Len(observed')]_vars

\* C37 witness: the EXIM agent returned by exhaustion; the capability result
\* of its second round, the gateway's body, is the last turn of the
\* scratchpad and was never submitted
C37_Witness ==
  /\ Exhausted /\ self = "exim_agent" /\ passes = 2
  /\ Rounds(agent_scratchpad) = 2
  /\ agent_scratchpad[Len(agent_scratchpad)].type = "tool"
  /\ agent_scratchpad[Len(agent_scratchpad)].content
       = "{\"molecule_name\": \"metformin\"}"
  /\ a_result.analysis = "Error: EXIM Trade Agent reached max iterations."


\* C38: after the dispatcher's setup report_requested is true exactly when
\* report_format is non-null, so the Phase-4 guard "report_requested and
\* report_format" is equivalent to either conjunct alone, and a query whose
\* only cue is "report" has the format pdf.
C38_RequestedIffFormat ==
  SetupDone =>
    /\ report_requested <=> (report_format # None)
    /\ (report_requested /\ report_format # None) <=> report_requested
    /\ (report_requested /\ report_format # None) <=> (report_format # None)
    /\ report_format \in {None, "pdf", "excel", "both"}
    /\ (HasReportCue /\ ~HasPdfCue /\ ~HasExcelCue) => report_format = "pdf"
    /\ (~HasReportCue /\ ~HasPdfCue /\ ~HasExcelCue) =>
         (~report_requested /\ report_format = None)

\* C38 witness: a query whose only cue is "report" reached Phase 4 and the
\* renderer was called for a pdf.
C38_Witness ==
  /\ SetupDone
  /\ HasReportCue /\ ~HasPdfCue /\ ~HasExcelCue
  /\ report_requested /\ report_format = "pdf"
  /\ Len(renderer_calls) = 1
  /\ renderer_calls[1].format = "pdf"

\* the generation has drawn charts and has not yet built its document
NotYetBuilt(j) == pdfs[j].pc \in {"elements", "savefig"}

\* C34: a step of one PDF generation never removes from the temporary
\* directory a chart file that another generation has created and has not
\* yet consumed in building its document.
C34_CleanupRemovesOwnCharts ==
  [][\A i \in Slots :
       pdfs'[i] # pdfs[i] =>
         \A f \in temp_dir :
           (\A g \in temp_dir' : g[1] # f[1]) =>
             \A j \in Slots \ {i} :
               ~(NotYetBuilt(j) /\ InList(f[1], pdfs[j].images))]_vars
====
